---- MODULE Spec2Model ----
(***************************************************************************)
(* A model of the xi interpreter's evaluation pipeline: the resolver pass  *)
(* (resolver.rs), the environment chain (env.rs), the evaluation context   *)
(* (context.rs), the tree-walking evaluator (interpreter.rs), the function *)
(* contract (function.rs) and the driver that runs one source line after   *)
(* the other against one global environment (main.rs).                     *)
(*                                                                         *)
(* Shared, reference-counted cells (Rc<RefCell<..>>) are heaps indexed by  *)
(* handles: envs, lists, dicts and funs.  The evaluator is recursive in    *)
(* the source and recursive here: visit_expr, visit_stmt, interpret, call  *)
(* and run thread the store `st` and return a completion record            *)
(* [k, v, st] with k one of Ok / Return / Report / Panic / Fuel.           *)
(***************************************************************************)
EXTENDS Integers, Sequences, FiniteSets, TLC

VARIABLES
  session,    \* the source lines this process is given (each a parsed Vec<Stmt>)
  build,      \* "debug" or "release": decides what usize underflow does
  line,       \* index of the line being run
  pc,         \* position inside run::inner / the repl loop
  resolvers,  \* one Resolver result (locals) per line run so far
  store,      \* the heaps, the output and the evaluation trace
  result      \* the completion of the current line

vars == <<session, build, line, pc, resolvers, store, result>>

(***************************************************************************)
(* Bounds of the model.                                                    *)
(***************************************************************************)
\* The platform size type, scaled down: an Integer converts iff 0 <= i <= UsizeMax.
UsizeMax == 7
\* Steps (calls and loop iterations) one line may take before the model gives up.
MaxFuel == 24

(***************************************************************************)
(* Values (value.rs, token.rs).  A value is [tag, v]; List, Dict and       *)
(* Function carry a handle into the matching heap.                         *)
(***************************************************************************)
Nil == [tag |-> "Nil", v |-> 0]
True == [tag |-> "True", v |-> 0]
False == [tag |-> "False", v |-> 0]
IntV(i) == [tag |-> "Integer", v |-> i]
StrV(s) == [tag |-> "String", v |-> s]
\* Literal::Float: the fraction n / d in lowest terms with d > 0, or with d = 0
\* an infinity (1 / 0, -1 / 0) or NaN (0 / 0).  Rounding to the precision and
\* the sign of zero are not modelled.
FloatV(n, d) ==
  LET g == IF d = 0 THEN 1
           ELSE CHOOSE h \in 1..(IF d < 0 THEN 0 - d ELSE d) :
                  /\ n % h = 0 /\ d % h = 0
                  /\ \A k \in (h + 1)..(IF d < 0 THEN 0 - d ELSE d) : n % k # 0 \/ d % k # 0
  IN  [tag |-> "Float",
       v |-> CASE d = 0 -> <<IF n > 0 THEN 1 ELSE IF n < 0 THEN 0 - 1 ELSE 0, 0>>
               [] d > 0 -> <<n \div g, d \div g>>
               [] d < 0 -> <<(0 - n) \div g, (0 - d) \div g>>]
ListV(h) == [tag |-> "List", v |-> h]
DictV(h) == [tag |-> "Dict", v |-> h]
FunV(h) == [tag |-> "Function", v |-> h]
BoolV(b) == IF b THEN True ELSE False

is_literal(x) == x.tag \in {"Integer", "Float", "String"}

\* A faulty test: the Integer 0 and the empty String are falsy as well.
is_truthy_but_for_zero_and_empty(x) == x \notin {Nil, False, IntV(0), StrV("")}

is_truthy(x) == ~(x.tag \in {"False", "Nil"})

\* A faulty equality: two values are equal iff they are the same literal or
\* the same cell.
eq_by_identity(l, r) == l.tag = r.tag /\ l.v = r.v

\* impl PartialEq for Value; NaN is equal to no Float
eq(l, r) ==
  IF is_literal(l) /\ is_literal(r)
  THEN l.tag = r.tag /\ l.v = r.v /\ ~(l.tag = "Float" /\ l.v = <<0, 0>>)
  ELSE l.tag = r.tag

\* A faulty conversion: the integer cast to the size type, wrapping around.
try_into_usize_wrapping(i) == [ok |-> TRUE, v |-> i % (UsizeMax + 1)]

\* usize::try_from(Integer): None when the integer is negative or too large
try_into_usize(i) == IF i < 0 \/ i > UsizeMax THEN [ok |-> FALSE, v |-> 0] ELSE [ok |-> TRUE, v |-> i]

(***************************************************************************)
(* Completions.  `?` in the source passes on everything but Ok.            *)
(***************************************************************************)
Ok(x, st) == [k |-> "Ok", v |-> x, st |-> st]
Return(x, st) == [k |-> "Return", v |-> x, st |-> st]
Report(err, span, st) == [k |-> "Report", v |-> [err |-> err, span |-> span], st |-> st]
Panic(why, st) == [k |-> "Panic", v |-> why, st |-> st]
OutOfFuel(st) == [k |-> "Fuel", v |-> 0, st |-> st]

Put(m, key, x) == [n \in DOMAIN m \cup {key} |-> IF n = key THEN x ELSE m[n]]
EmptyMap == [n \in {} |-> Nil]
Last(s) == s[Len(s)]
Log(st, e) == [st EXCEPT !.trace = Append(@, e)]
Ev(ev, id, x) == [ev |-> ev, id |-> id, val |-> x]

(***************************************************************************)
(* The AST (expr.rs).  Every node carries its id; its span is identified   *)
(* with the node, so a diagnostic's span is the id of the node it names.   *)
(* An Option<Box<..>> is a sequence of length 0 or 1.                      *)
(***************************************************************************)
Lit(id, x) == [kind |-> "Literal", id |-> id, value |-> x]
Var(id, name) == [kind |-> "Variable", id |-> id, name |-> name]
Assign(id, name, value) == [kind |-> "Assign", id |-> id, name |-> name, value |-> value]
Binary(id, op, left, right) == [kind |-> "Binary", id |-> id, op |-> op, left |-> left, right |-> right]
Logical(id, op, left, right) == [kind |-> "Logical", id |-> id, op |-> op, left |-> left, right |-> right]
Unary(id, op, right) == [kind |-> "Unary", id |-> id, op |-> op, right |-> right]
Grouping(id, value) == [kind |-> "Grouping", id |-> id, value |-> value]
Call(id, callee, args) == [kind |-> "Call", id |-> id, callee |-> callee, args |-> args]
ListE(id, items) == [kind |-> "List", id |-> id, items |-> items]
DictE(id, items) == [kind |-> "Dict", id |-> id, items |-> items]
GetIndex(id, obj, index) == [kind |-> "GetIndex", id |-> id, obj |-> obj, index |-> index]
SetIndex(id, obj, index, value) == [kind |-> "SetIndex", id |-> id, obj |-> obj, index |-> index, value |-> value]
Get(id, obj, name) == [kind |-> "Get", id |-> id, obj |-> obj, name |-> name]
Set(id, obj, name, value) == [kind |-> "Set", id |-> id, obj |-> obj, name |-> name, value |-> value]

Block(id, statements) == [kind |-> "Block", id |-> id, statements |-> statements]
Expression(id, expr) == [kind |-> "Expression", id |-> id, expr |-> expr]
Function(id, name, params, body) == [kind |-> "Function", id |-> id, name |-> name, params |-> params, body |-> body]
If(id, cond, then_branch, else_branch) == [kind |-> "If", id |-> id, cond |-> cond, then_branch |-> then_branch, else_branch |-> else_branch]
ReturnS(id, expr) == [kind |-> "Return", id |-> id, expr |-> expr]
Let(id, name, initializer) == [kind |-> "Let", id |-> id, name |-> name, initializer |-> initializer]
While(id, cond, body) == [kind |-> "While", id |-> id, cond |-> cond, body |-> body]

(***************************************************************************)
(* Environment (env.rs): a frame is [values, enclosing]; enclosing = 0 is  *)
(* None.  The field `scope` is not in the source: it names the Block or    *)
(* Function statement the frame was made for (0 for the global frame), so  *)
(* that a frame can be told from the outside.                              *)
(***************************************************************************)
Env_with_parent(st, enclosing) ==
  [st EXCEPT !.envs = Append(@, [values |-> EmptyMap, enclosing |-> enclosing, scope |-> 0])]

\* the frame `distance` parent links above frame e; 0 when the chain ends before
RECURSIVE Frame(_, _, _)
Frame(st, e, distance) ==
  IF e = 0 \/ distance = 0 THEN e ELSE Frame(st, st.envs[e].enclosing, distance - 1)

\* A faulty define: a list or a dict is bound as a copy
Env_define_a_copy(st, e, name, value) ==
  CASE value.tag = "List" ->
         [st EXCEPT !.lists = Append(@, @[value.v]),
                    !.envs[e].values = Put(@, name, ListV(Len(st.lists) + 1))]
    [] value.tag = "Dict" ->
         [st EXCEPT !.dicts = Append(@, @[value.v]),
                    !.envs[e].values = Put(@, name, DictV(Len(st.dicts) + 1))]
    [] OTHER -> [st EXCEPT !.envs[e].values = Put(@, name, value)]

Env_define(st, e, name, value) ==
  [st EXCEPT !.envs[e].values = Put(@, name, value)]

\* Env::assign.  `distance - 1` on a usize that is 0 panics in a debug build and
\* wraps in a release build.
RECURSIVE Env_assign(_, _, _, _, _)
Env_assign(st, e, distance, name, value) ==
  IF distance = 0 /\ name \in DOMAIN st.envs[e].values
  THEN Ok(Nil, Env_define(st, e, name, value))
  ELSE IF st.envs[e].enclosing # 0
       THEN IF distance = 0
            THEN IF build = "debug"
                 THEN Panic("attempt to subtract with overflow", st)
                 ELSE Env_assign(st, st.envs[e].enclosing, UsizeMax, name, value)
            ELSE Env_assign(st, st.envs[e].enclosing, distance - 1, name, value)
       ELSE Report("UndefinedValue", 0, st)

RECURSIVE Env_get(_, _, _, _)
Env_get(st, e, distance, name) ==
  IF distance = 0 /\ name \in DOMAIN st.envs[e].values
  THEN Ok(st.envs[e].values[name], st)
  ELSE IF st.envs[e].enclosing # 0
       THEN IF distance = 0
            THEN IF build = "debug"
                 THEN Panic("attempt to subtract with overflow", st)
                 ELSE Env_get(st, st.envs[e].enclosing, UsizeMax, name)
            ELSE Env_get(st, st.envs[e].enclosing, distance - 1, name)
       ELSE Report("UndefinedValue", 0, st)

(***************************************************************************)
(* Evaluation context (context.rs): [env, resolver, size].  A Ctx never    *)
(* changes after its creation, so the Rc<RefCell<Ctx>> a closure holds is  *)
(* the record itself.                                                      *)
(***************************************************************************)
Ctx_new(env, resolver) == [env |-> env, resolver |-> resolver, size |-> 0]

\* A faulty child context: the size of the parent kept as it is.
Ctx_with_parent_of_the_same_size(st, ctx) ==
  [ctx |-> [env |-> Len(st.envs) + 1, resolver |-> ctx.resolver, size |-> ctx.size],
   st |-> Env_with_parent(st, ctx.env)]

\* Ctx::with_parent: the new context, and the store with its new frame
Ctx_with_parent(st, ctx) ==
  [ctx |-> [env |-> Len(st.envs) + 1, resolver |-> ctx.resolver, size |-> ctx.size + 1],
   st |-> Env_with_parent(st, ctx.env)]

Ctx_define(st, ctx, name, value) == Env_define(st, ctx.env, name, value)

\* self.resolver.locals.get(i.id()).unwrap_or(&self.size)
Ctx_distance(ctx, id) ==
  IF id \in DOMAIN resolvers[ctx.resolver] THEN resolvers[ctx.resolver][id] ELSE ctx.size

Ctx_assign(st, ctx, id, name, value) == Env_assign(st, ctx.env, Ctx_distance(ctx, id), name, value)

Ctx_get(st, ctx, id, name) == Env_get(st, ctx.env, Ctx_distance(ctx, id), name)

(***************************************************************************)
(* Resolver (resolver.rs).  The state is [scopes, locals, ok, span]: ok is *)
(* FALSE once a visit has returned Err(ReadLocalVariableInOwnInitializer), *)
(* span then names the offending node.  Two fields are not in the source:  *)
(* `opened` holds, for each scope of `scopes`, the Block or Function       *)
(* statement that opened it, and `found` holds, for each node of `locals`, *)
(* the value of `opened` when the node was resolved.                       *)
(***************************************************************************)
Resolver_default ==
  [scopes |-> <<>>, locals |-> EmptyMap, ok |-> TRUE, span |-> 0, opened |-> <<>>, found |-> EmptyMap]

begin_scope(rs) == [rs EXCEPT !.scopes = Append(@, EmptyMap)]

end_scope(rs) ==
  [rs EXCEPT !.scopes = SubSeq(@, 1, Len(@) - 1), !.opened = SubSeq(@, 1, Len(@) - 1)]

Resolver_define(rs, name) ==
  IF Len(rs.scopes) > 0 THEN [rs EXCEPT !.scopes[Len(rs.scopes)] = Put(@, name, TRUE)] ELSE rs

declare(rs, name) ==
  IF Len(rs.scopes) > 0 THEN [rs EXCEPT !.scopes[Len(rs.scopes)] = Put(@, name, FALSE)] ELSE rs

\* the scopes that hold `name`, as depths counted from the innermost one
ScopesWith(rs, name) ==
  {d \in 0..(Len(rs.scopes) - 1) : name \in DOMAIN rs.scopes[Len(rs.scopes) - d]}

resolve_local(rs, id, name) ==
  IF ScopesWith(rs, name) = {}
  THEN rs
  ELSE LET depth == CHOOSE d \in ScopesWith(rs, name) : \A d2 \in ScopesWith(rs, name) : d <= d2
       IN  [rs EXCEPT !.locals = Put(@, id, depth),
                      !.found = Put(@, id, rs.opened)]

\* the check of ExprKind::Variable: the name is in the innermost scope and set at false
ReadsOwnInitializer(rs, name) ==
  /\ Len(rs.scopes) > 0
  /\ name \in DOMAIN Last(rs.scopes)
  /\ ~Last(rs.scopes)[name]

RECURSIVE Resolver_visit_expr(_, _), Resolver_visit_exprs(_, _, _), Resolver_visit_stmt(_, _), Resolver_visit_stmts(_, _, _)

\* `for e in es { self.visit_expr(e)?; }` from the i-th element on
Resolver_visit_exprs(rs, es, i) ==
  IF i > Len(es) \/ ~rs.ok THEN rs ELSE Resolver_visit_exprs(Resolver_visit_expr(rs, es[i]), es, i + 1)

Resolver_visit_expr(rs, expr) ==
  IF ~rs.ok THEN rs
  ELSE CASE expr.kind = "Variable" ->
              IF ReadsOwnInitializer(rs, expr.name)
              THEN [rs EXCEPT !.ok = FALSE, !.span = expr.id]
              ELSE resolve_local(rs, expr.id, expr.name)
         [] expr.kind = "Assign" ->
              LET r1 == Resolver_visit_expr(rs, expr.value)
              IN  IF ~r1.ok THEN r1 ELSE resolve_local(r1, expr.id, expr.name)
         [] expr.kind \in {"Binary", "Logical"} -> Resolver_visit_exprs(rs, <<expr.left, expr.right>>, 1)
         [] expr.kind = "Call" -> Resolver_visit_exprs(rs, <<expr.callee>> \o expr.args, 1)
         [] expr.kind = "Grouping" -> Resolver_visit_expr(rs, expr.value)
         [] expr.kind = "Literal" -> rs
         [] expr.kind = "Unary" -> Resolver_visit_expr(rs, expr.right)
         [] expr.kind = "Get" -> Resolver_visit_expr(rs, expr.obj)
         [] expr.kind = "Set" -> Resolver_visit_exprs(rs, <<expr.obj, expr.value>>, 1)
         [] expr.kind = "List" -> Resolver_visit_exprs(rs, expr.items, 1)
         [] expr.kind = "GetIndex" -> Resolver_visit_exprs(rs, <<expr.obj, expr.index>>, 1)
         [] expr.kind = "SetIndex" -> Resolver_visit_exprs(rs, <<expr.obj, expr.index, expr.value>>, 1)
         [] expr.kind = "Dict" ->
              Resolver_visit_exprs(rs, [j \in 1..(2 * Len(expr.items)) |-> expr.items[(j + 1) \div 2][2 - (j % 2)]], 1)

\* `for statement in statements { self.visit_stmt(statement)?; }`
Resolver_visit_stmts(rs, stmts, i) ==
  IF i > Len(stmts) \/ ~rs.ok THEN rs ELSE Resolver_visit_stmts(Resolver_visit_stmt(rs, stmts[i]), stmts, i + 1)

\* declare and define every parameter in the scope just opened
RECURSIVE DeclareParams(_, _, _)
DeclareParams(rs, params, i) ==
  IF i > Len(params) THEN rs ELSE DeclareParams(Resolver_define(declare(rs, params[i]), params[i]), params, i + 1)

\* A faulty resolver: the function's name declared after its body is resolved.
Resolver_visit_stmt_Function_name_last(rs, stmt) ==
  LET r1 == DeclareParams(begin_scope([rs EXCEPT !.opened = Append(@, stmt.id)]), stmt.params, 1)
      r2 == Resolver_visit_stmts(r1, stmt.body, 1)
  IN  IF ~r2.ok THEN r2 ELSE Resolver_define(declare(end_scope(r2), stmt.name), stmt.name)

\* StmtKind::Function: the name, then a scope with the parameters and the body
Resolver_visit_stmt_Function(rs, stmt) ==
  LET r0 == Resolver_define(declare(rs, stmt.name), stmt.name)
      r1 == DeclareParams(begin_scope([r0 EXCEPT !.opened = Append(@, stmt.id)]), stmt.params, 1)
      r2 == Resolver_visit_stmts(r1, stmt.body, 1)
  IN  IF ~r2.ok THEN r2 ELSE end_scope(r2)

Resolver_visit_stmt(rs, stmt) ==
  IF ~rs.ok THEN rs
  ELSE CASE stmt.kind = "Block" ->
              LET r1 == Resolver_visit_stmts(begin_scope([rs EXCEPT !.opened = Append(@, stmt.id)]),
                                             stmt.statements, 1)
              IN  IF ~r1.ok THEN r1 ELSE end_scope(r1)
         [] stmt.kind = "Let" ->
              LET r1 == Resolver_visit_exprs(declare(rs, stmt.name), stmt.initializer, 1)
              IN  IF ~r1.ok THEN r1 ELSE Resolver_define(r1, stmt.name)
         [] stmt.kind = "Function" -> Resolver_visit_stmt_Function(rs, stmt)
         [] stmt.kind = "Expression" -> Resolver_visit_expr(rs, stmt.expr)
         [] stmt.kind = "If" ->
              LET r1 == Resolver_visit_expr(rs, stmt.cond)
                  r2 == Resolver_visit_stmt(r1, stmt.then_branch)
              IN  Resolver_visit_stmts(r2, stmt.else_branch, 1)
         [] stmt.kind = "Return" -> Resolver_visit_exprs(rs, stmt.expr, 1)
         [] stmt.kind = "While" ->
              Resolver_visit_stmt(Resolver_visit_expr(rs, stmt.cond), stmt.body)

\* A faulty pass: no statement is visited.
resolve_nothing(rs, statements) == rs

\* Resolver::resolve: a list of one statement (or none) is not visited at all
resolve(rs, statements) ==
  IF Len(statements) > 1 THEN Resolver_visit_stmts(rs, statements, 1) ELSE rs

(***************************************************************************)
(* Value operators (value.rs).  Each returns [ok, v]; ok = FALSE is a      *)
(* ValueError, which into_report turns into UnsupportedOperation.          *)
(***************************************************************************)
VOk(x) == [ok |-> TRUE, panic |-> FALSE, v |-> x]
\* ValueError::UnsupportedOperation
VErr == [ok |-> FALSE, panic |-> FALSE, v |-> Nil, err |-> "UnsupportedOperation"]
\* ValueError::IntegerConversionError
IntegerConversionError == [ok |-> FALSE, panic |-> FALSE, v |-> Nil, err |-> "IntegerConversionError"]
\* the operator itself aborts (rug panics on a division by zero)
VPanic == [ok |-> FALSE, panic |-> TRUE, v |-> Nil]

\* Display for Value, for the kinds that carry no container; the digits of a
\* Float are written as its fraction
Display(x) ==
  CASE x.tag = "True" -> "true"
    [] x.tag = "False" -> "false"
    [] x.tag = "Nil" -> "nil"
    [] x.tag = "Integer" -> ToString(x.v)
    [] x.tag = "Float" -> ToString(x.v[1]) \o "/" \o ToString(x.v[2])
    [] x.tag = "String" -> x.v
    [] OTHER -> "(" \o x.tag \o ")"

\* the fraction of a number: an Integer operand beside a Float is promoted
fraction(x) == IF x.tag = "Integer" THEN <<x.v, 1>> ELSE x.v

neg(x) ==
  CASE x.tag = "Integer" -> VOk(IntV(0 - x.v))
    [] x.tag = "Float" -> VOk(FloatV(0 - x.v[1], x.v[2]))
    [] OTHER -> VErr

\* A faulty addition: a String is concatenated with a String only.
add_without_coercion(l, r) ==
  CASE l.tag = "Integer" /\ r.tag = "Integer" -> VOk(IntV(l.v + r.v))
    [] l.tag = "String" /\ r.tag = "String" -> VOk(StrV(l.v \o r.v))
    [] OTHER -> VErr

add(l, r) ==
  CASE l.tag = "Integer" /\ r.tag = "Integer" -> VOk(IntV(l.v + r.v))
    [] {l.tag, r.tag} \in {{"Float"}, {"Integer", "Float"}} ->
         LET a == fraction(l)
             b == fraction(r)
         IN  IF a[2] = 0 /\ b[2] = 0
             THEN VOk(FloatV(IF a[1] = b[1] THEN a[1] ELSE 0, 0))
             ELSE VOk(FloatV(a[1] * b[2] + b[1] * a[2], a[2] * b[2]))
    [] l.tag = "String" \/ r.tag = "String" -> VOk(StrV(Display(l) \o Display(r)))
    [] OTHER -> VErr

sub(l, r) ==
  CASE l.tag = "Integer" /\ r.tag = "Integer" -> VOk(IntV(l.v - r.v))
    [] {l.tag, r.tag} \in {{"Float"}, {"Integer", "Float"}} ->
         add(l, FloatV(0 - fraction(r)[1], fraction(r)[2]))
    [] OTHER -> VErr

Abs(i) == IF i < 0 THEN 0 - i ELSE i

RECURSIVE repeat(_, _)
repeat(s, n) == IF n = 0 THEN "" ELSE s \o repeat(s, n - 1)

mul(l, r) ==
  CASE l.tag = "Integer" /\ r.tag = "Integer" -> VOk(IntV(l.v * r.v))
    [] {l.tag, r.tag} \in {{"Float"}, {"Integer", "Float"}} ->
         VOk(FloatV(fraction(l)[1] * fraction(r)[1], fraction(l)[2] * fraction(r)[2]))
    [] l.tag = "String" /\ r.tag = "Integer" ->
         IF try_into_usize(r.v).ok THEN VOk(StrV(repeat(l.v, r.v))) ELSE IntegerConversionError
    [] l.tag = "Integer" /\ r.tag = "String" ->
         IF try_into_usize(l.v).ok THEN VOk(StrV(repeat(r.v, l.v))) ELSE IntegerConversionError
    [] OTHER -> VErr

\* Integer division rounds towards zero and panics on the divisor 0; a
\* division that involves a Float multiplies by the reciprocal, 1 / 0 being an
\* infinity
div(l, r) ==
  CASE l.tag = "Integer" /\ r.tag = "Integer" ->
         IF r.v = 0 THEN VPanic
         ELSE IF (l.v >= 0) = (r.v > 0) THEN VOk(IntV(Abs(l.v) \div Abs(r.v)))
         ELSE VOk(IntV(0 - (Abs(l.v) \div Abs(r.v))))
    [] {l.tag, r.tag} \in {{"Float"}, {"Integer", "Float"}} ->
         LET b == fraction(r)
         IN  mul(l, IF b[1] < 0 THEN FloatV(0 - b[2], 0 - b[1]) ELSE FloatV(b[2], b[1]))
    [] OTHER -> VErr

\* the order of two integers
ord(a, b) == IF a < b THEN "Less" ELSE IF a = b THEN "Equal" ELSE "Greater"

\* impl PartialOrd for Value: "Less", "Equal", "Greater" or "None" (unordered).
\* Strings are ordered as str is, by their bytes: of the strings the programs
\* of the model compare, "" < "ab" < "b".
partial_cmp(l, r) ==
  CASE l.tag \in {"Integer", "Float"} /\ r.tag \in {"Integer", "Float"} ->
         IF fraction(l) = <<0, 0>> \/ fraction(r) = <<0, 0>> THEN "None"
         ELSE IF fraction(l)[2] = 0 /\ fraction(r)[2] = 0 THEN ord(fraction(l)[1], fraction(r)[1])
         ELSE ord(fraction(l)[1] * fraction(r)[2], fraction(r)[1] * fraction(l)[2])
    [] l.tag = "String" /\ r.tag = "String" ->
         IF l.v = r.v THEN "Equal"
         ELSE IF l.v = "" \/ (l.v = "ab" /\ r.v = "b") THEN "Less"
         ELSE "Greater"
    [] l.tag = "True" /\ r.tag = "False" -> "Greater"
    [] l.tag = "False" /\ r.tag = "True" -> "Less"
    [] OTHER -> "None"

gt(l, r) == partial_cmp(l, r) = "Greater"
ge(l, r) == partial_cmp(l, r) \in {"Greater", "Equal"}
lt(l, r) == partial_cmp(l, r) = "Less"
le(l, r) == partial_cmp(l, r) \in {"Less", "Equal"}

(***************************************************************************)
(* Heaps of the shared cells.                                              *)
(***************************************************************************)
\* Rc::new(RefCell::new(List(items)))
NewList(st, items) == [st EXCEPT !.lists = Append(@, items)]
\* Rc::new(RefCell::new(Dict(map)))
NewDict(st, map) == [st EXCEPT !.dicts = Append(@, map)]
\* Rc::new(function)
NewFun(st, f) == [st EXCEPT !.funs = Append(@, f)]

Builtin(name, arity) ==
  [kind |-> "Builtin", name |-> name, arity |-> arity, params |-> <<>>, body |-> <<>>, closure |-> Ctx_new(0, 0),
   id |-> 0]

\* the field `id` is not in the source: the Function statement the value was made by
SimpleFunction(name, params, body, closure) ==
  [kind |-> "Simple", name |-> name, arity |-> Len(params), params |-> params, body |-> body, closure |-> closure,
   id |-> 0]

\* RefCell::borrow on a list: panics while a RefMut of the same cell is alive
CanBorrow(st, h) == h \notin st.mutb

(***************************************************************************)
(* Interpreter (interpreter.rs) and functions (function.rs).               *)
(* The trace records, in evaluation order: "stmt" (visit_stmt entered),    *)
(* "look" (a Variable or Assign node about to be looked up), "get" (a      *)
(* Variable read and its value), "return" (a Return raised),               *)
(* "enter" / "body" (a call begun, its parameters bound), "exit" (a call   *)
(* completed with a value) and "fail" (a call passed a report on).         *)
(***************************************************************************)
RECURSIVE visit_expr(_, _, _), visit_exprs(_, _, _, _, _), visit_dict_items(_, _, _, _, _)
RECURSIVE visit_stmt(_, _, _), interpret_rest(_, _, _, _), while_loop(_, _, _)

\* A faulty test: the right operand of a Logical is always evaluated.
short_circuits_never(op, left) == FALSE

\* visit_expr (Logical): the condition under which the left value is the result
short_circuits(op, left) == (op = "Or" /\ is_truthy(left)) \/ (op = "And" /\ ~is_truthy(left))

\* the event of a lookup: the context it is made in, and whether the frame
\* at the distance binds the name at that moment
Looked(st, ctx, expr) ==
  LET frame == Frame(st, ctx.env, Ctx_distance(ctx, expr.id))
  IN  Ev("look", expr.id,
         [ctx |-> ctx, kind |-> expr.kind,
          bound |-> frame # 0 /\ expr.name \in DOMAIN st.envs[IF frame = 0 THEN 1 ELSE frame].values])

\* e.into_report(&expr.span) on the failure of a value operator
ValueResult(r, span, st) ==
  IF r.ok THEN Ok(r.v, st)
  ELSE IF r.panic THEN Panic("division by zero", st)
  ELSE Report(CASE r.err = "UnsupportedOperation" -> "UnsupportedOperation"
                [] r.err = "IntegerConversionError" -> "UnsupportedOperation",
              span, st)

BinaryOp(op, l, r, span, st) ==
  CASE op = "Minus" -> ValueResult(sub(l, r), span, st)
    [] op = "Slash" -> ValueResult(div(l, r), span, st)
    [] op = "Star" -> ValueResult(mul(l, r), span, st)
    [] op = "Plus" -> ValueResult(add(l, r), span, st)
    [] op = "Greater" -> Ok(BoolV(gt(l, r)), st)
    [] op = "GreaterEqual" -> Ok(BoolV(ge(l, r)), st)
    [] op = "Less" -> Ok(BoolV(lt(l, r)), st)
    [] op = "LessEqual" -> Ok(BoolV(le(l, r)), st)
    [] op = "EqualEqual" -> Ok(BoolV(eq(l, r)), st)
    [] op = "BangEqual" -> Ok(BoolV(~eq(l, r)), st)

\* es.iter().map(|e| visit_expr(ctx, e)).collect::<Result<Vec<_>, _>>()
visit_exprs(ctx, es, i, acc, st) ==
  IF i > Len(es) THEN Ok(acc, st)
  ELSE LET r == visit_expr(ctx, es[i], st)
       IN  IF r.k # "Ok" THEN r ELSE visit_exprs(ctx, es, i + 1, Append(acc, r.v), r.st)

\* the loop of ExprKind::Dict over the (key, value) pairs
visit_dict_items(ctx, items, i, map, st) ==
  IF i > Len(items) THEN Ok(map, st)
  ELSE LET l == visit_expr(ctx, items[i][1], st)
       IN  IF l.k # "Ok" THEN l
           ELSE LET r == visit_expr(ctx, items[i][2], l.st)
                IN  IF r.k # "Ok" THEN r
                    ELSE visit_dict_items(ctx, items, i + 1, Put(map, l.v, r.v), r.st)

\* `new_env.define(name, args[i])` for each parameter: args[i] is out of bounds
\* when fewer arguments than parameters were passed
RECURSIVE bind_params(_, _, _, _, _)
\* A faulty binding: the parameters are defined in the parent of the new frame
bind_params_in_the_captured_frame(params, args, i, e, st) ==
  IF i > Len(params) THEN Ok(Nil, st)
  ELSE IF i > Len(args) THEN Panic("index out of bounds", st)
  ELSE bind_params(params, args, i + 1, e, Env_define(st, st.envs[e].enclosing, params[i], args[i]))

bind_params(params, args, i, e, st) ==
  IF i > Len(params) THEN Ok(Nil, st)
  ELSE IF i > Len(args) THEN Panic("index out of bounds", st)
  ELSE bind_params(params, args, i + 1, e, Env_define(st, e, params[i], args[i]))

\* impl Function for the builtins (builtin/*.rs)
run_builtin(f, args, st) ==
  CASE f.name = "time" -> Ok(IntV(st.clock), [st EXCEPT !.clock = @ + 1])
    [] f.name \in {"print", "println"} ->
         IF \E i \in 1..Len(args) : args[i].tag = "List" /\ ~CanBorrow(st, args[i].v)
         THEN Panic("already mutably borrowed", st)
         ELSE Ok(Nil, [st EXCEPT !.out = Append(@, [fn |-> f.name, args |-> args])])
    [] f.name = "len" ->
         IF Len(args) = 0 THEN Ok(Nil, st)
         ELSE IF args[1].tag = "List"
              THEN IF CanBorrow(st, args[1].v) THEN Ok(IntV(Len(st.lists[args[1].v])), st)
                   ELSE Panic("already mutably borrowed", st)
         ELSE IF args[1].tag = "Dict" THEN Ok(IntV(Cardinality(DOMAIN st.dicts[args[1].v])), st)
         ELSE Ok(IntV(0), st)

\* A faulty interpret: the loop without its `?`, so that a statement's Return or
\* report does not end the list.
interpret_rest_without_question_mark(ctx, statements, n, st) ==
  visit_stmt(ctx, statements[n],
             IF n = 1 THEN st ELSE interpret_rest(ctx, statements, n - 1, st).st)

\* `for stmt in statements.iter().take(len - 1) { visit_stmt(ctx, stmt)?; }`, then
\* the last: the first n statements, each one after those before it completed
interpret_rest(ctx, statements, n, st) ==
  LET r == IF n = 1 THEN Ok(Nil, st) ELSE interpret_rest(ctx, statements, n - 1, st)
  IN  IF r.k # "Ok" THEN r ELSE visit_stmt(ctx, statements[n], r.st)

\* A faulty list evaluation: the value of the first statement kept.
interpret_value_of_first(ctx, statements, st) ==
  LET r == IF Len(statements) = 0 THEN Ok(Nil, st) ELSE interpret_rest(ctx, statements, Len(statements), st)
  IN  IF r.k = "Ok" /\ Len(statements) > 0 THEN Ok(visit_stmt(ctx, statements[1], st).v, r.st) ELSE r

interpret(ctx, statements, st) ==
  CASE Len(statements) = 0 -> Ok(Nil, st)
    [] Len(statements) = 1 -> visit_stmt(ctx, statements[1], st)
    [] OTHER -> interpret_rest(ctx, statements, Len(statements), st)

\* A faulty run: a child of the context of the caller
run_over_the_context_of_the_caller(h, ctx, args, st) ==
  LET f == st.funs[h]
      made == Ctx_with_parent(st, ctx)
      new_env == [made EXCEPT !.st.envs[made.ctx.env].scope = f.id]
      bound == bind_params(f.params, args, 1, new_env.ctx.env, new_env.st)
  IN  CASE f.kind = "Builtin" -> run_builtin(f, args, st)
        [] f.kind # "Builtin" /\ bound.k # "Ok" -> bound
        [] OTHER -> interpret(new_env.ctx, f.body, Log(bound.st, Ev("body", h, Nil)))

\* Simple::run: a child of the captured context, the parameters, the body
run(h, ctx, args, st) ==
  LET f == st.funs[h]
      made == Ctx_with_parent(st, f.closure)
      new_env == [made EXCEPT !.st.envs[made.ctx.env].scope = f.id]
      bound == bind_params(f.params, args, 1, new_env.ctx.env, new_env.st)
  IN  CASE f.kind = "Builtin" -> run_builtin(f, args, st)
        [] f.kind # "Builtin" /\ bound.k # "Ok" -> bound
        [] OTHER -> interpret(new_env.ctx, f.body, Log(bound.st, Ev("body", h, Nil)))

\* A faulty call: the result of run passed on as it is.
Unwrap_nothing(r) == r

\* A faulty call: a report of run() ends at the call, which yields nil
Unwrap_reports_too(r) ==
  IF r.k = "Return" THEN [r EXCEPT !.k = "Ok"]
  ELSE IF r.k = "Report" THEN [r EXCEPT !.k = "Ok", !.v = Nil]
  ELSE r

\* Function::call: a Return from run is the call's value, the rest passes through
Unwrap(r) == IF r.k = "Return" THEN [r EXCEPT !.k = "Ok"] ELSE r

\* A faulty call: only a Return of run() gives the call a value other than nil
call_nil_without_return(h, ctx, args, st) ==
  IF st.fuel = 0 THEN OutOfFuel(st)
  ELSE LET r0 == run(h, ctx, args, Log([st EXCEPT !.fuel = @ - 1], Ev("enter", h, Nil)))
           r == IF r0.k = "Ok" THEN [r0 EXCEPT !.v = Nil] ELSE Unwrap(r0)
       IN  IF r.k = "Ok" THEN [r EXCEPT !.st = Log(@, Ev("exit", h, r.v))]
           ELSE IF r.k = "Report" THEN [r EXCEPT !.st = Log(@, Ev("fail", h, r.v))]
           ELSE r

call(h, ctx, args, st) ==
  IF st.fuel = 0 THEN OutOfFuel(st)
  ELSE LET r == Unwrap(run(h, ctx, args, Log([st EXCEPT !.fuel = @ - 1], Ev("enter", h, Nil))))
       IN  IF r.k = "Ok" THEN [r EXCEPT !.st = Log(@, Ev("exit", h, r.v))]
           ELSE IF r.k = "Report" THEN [r EXCEPT !.st = Log(@, Ev("fail", h, r.v))]
           ELSE r

\* ExprKind::GetIndex on a list
GetIndexList(h, index, span, st) ==
  LET i == try_into_usize(index.v)
  IN  IF index.tag # "Integer" \/ ~i.ok
      THEN Report("ListIndexInvalidError", span, st)
      ELSE IF ~CanBorrow(st, h) THEN Panic("already mutably borrowed", st)
      ELSE IF i.v + 1 > Len(st.lists[h]) THEN Report("ListIndexOutOfBoundsError", span, st)
      ELSE Ok(st.lists[h][i.v + 1], st)

\* ExprKind::GetIndex on a dict: get(&index).unwrap()
GetIndexDict(h, index, span, st) ==
  IF index \in DOMAIN st.dicts[h]
  THEN Ok(st.dicts[h][index], st)
  ELSE Panic("called Option::unwrap() on a None value", st)

\* ExprKind::SetIndex on a list: the RefMut of the list lives until the match
\* ends, the value expression is evaluated inside it
SetIndexList(ctx, h, index, value, span, st) ==
  LET i == try_into_usize(index.v)
  IN  IF index.tag # "Integer" \/ ~i.ok
      THEN Report("ListIndexInvalidError", span, st)
      ELSE IF ~CanBorrow(st, h) THEN Panic("already borrowed", st)
      ELSE IF i.v + 1 > Len(st.lists[h]) THEN Report("ListIndexOutOfBoundsError", span, st)
      ELSE LET new == visit_expr(ctx, value, [st EXCEPT !.mutb = @ \cup {h}])
               released == [new.st EXCEPT !.mutb = @ \ {h}]
           IN  IF new.k = "Panic" THEN new
               ELSE IF new.k # "Ok" THEN [new EXCEPT !.st = released]
               ELSE Ok(new.v, [released EXCEPT !.lists[h][i.v + 1] = new.v])

visit_expr(ctx, expr, st) ==
  CASE expr.kind = "Grouping" -> visit_expr(ctx, expr.value, st)
    [] expr.kind = "Literal" -> Ok(expr.value, st)
    [] expr.kind = "Unary" ->
         LET r == visit_expr(ctx, expr.right, st)
         IN  IF r.k # "Ok" THEN r
             ELSE IF expr.op = "Minus" THEN ValueResult(neg(r.v), expr.id, r.st)
             ELSE Ok(BoolV(~is_truthy(r.v)), r.st)
    [] expr.kind = "Binary" ->
         LET l == visit_expr(ctx, expr.left, st)
         IN  IF l.k # "Ok" THEN l
             ELSE LET r == visit_expr(ctx, expr.right, l.st)
                  IN  IF r.k # "Ok" THEN r ELSE BinaryOp(expr.op, l.v, r.v, expr.id, r.st)
    [] expr.kind = "Variable" ->
         LET g == Ctx_get(st, ctx, expr.id, expr.name)
             st1 == Log(st, Looked(st, ctx, expr))
         IN  IF g.k = "Ok" THEN Ok(g.v, Log(st1, Ev("get", expr.id, g.v)))
             ELSE IF g.k = "Report" THEN Report(g.v.err, expr.id, st1)
             ELSE [g EXCEPT !.st = st1]
    [] expr.kind = "Assign" ->
         LET r == visit_expr(ctx, expr.value, st)
         IN  IF r.k # "Ok" THEN r
             ELSE LET st1 == Log(r.st, Looked(r.st, ctx, expr))
                      a == Ctx_assign(st1, ctx, expr.id, expr.name, r.v)
                  IN  IF a.k = "Ok" THEN Ok(r.v, a.st)
                      ELSE IF a.k = "Report" THEN Report(a.v.err, expr.id, st1)
                      ELSE a
    [] expr.kind = "Logical" ->
         LET l == visit_expr(ctx, expr.left, st)
         IN  IF l.k # "Ok" THEN l
             ELSE IF short_circuits(expr.op, l.v) THEN l
             ELSE visit_expr(ctx, expr.right, l.st)
    [] expr.kind = "Call" ->
         LET callee == visit_expr(ctx, expr.callee, st)
             args == visit_exprs(ctx, expr.args, 1, <<>>, callee.st)
         IN  CASE callee.k # "Ok" -> callee
               [] callee.k = "Ok" /\ args.k # "Ok" -> args
               [] callee.k = "Ok" /\ args.k = "Ok" /\ callee.v.tag = "Function" ->
                    call(callee.v.v, ctx, args.v, args.st)
               [] OTHER -> Report("CalleeTypeError", expr.id, args.st)
    [] expr.kind = "Get" ->
         LET this == visit_expr(ctx, expr.obj, st)
         IN  IF this.k # "Ok" THEN this ELSE Report("InstanceTypeError", expr.id, this.st)
    [] expr.kind = "Set" ->
         LET this == visit_expr(ctx, expr.obj, st)
         IN  IF this.k # "Ok" THEN this
             ELSE LET value == visit_expr(ctx, expr.value, this.st)
                  IN  IF value.k # "Ok" THEN value ELSE Report("InstanceTypeError", expr.id, value.st)
    [] expr.kind = "List" ->
         LET items == visit_exprs(ctx, expr.items, 1, <<>>, st)
         IN  IF items.k # "Ok" THEN items
             ELSE Ok(ListV(Len(items.st.lists) + 1), NewList(items.st, items.v))
    [] expr.kind = "Dict" ->
         LET items == visit_dict_items(ctx, expr.items, 1, EmptyMap, st)
         IN  IF items.k # "Ok" THEN items
             ELSE Ok(DictV(Len(items.st.dicts) + 1), NewDict(items.st, items.v))
    [] expr.kind = "GetIndex" ->
         LET this == visit_expr(ctx, expr.obj, st)
         IN  IF this.k # "Ok" THEN this
             ELSE IF this.v.tag \in {"List", "Dict"}
             THEN LET index == visit_expr(ctx, expr.index, this.st)
                  IN  IF index.k # "Ok" THEN index
                      ELSE IF this.v.tag = "List" THEN GetIndexList(this.v.v, index.v, expr.id, index.st)
                      ELSE GetIndexDict(this.v.v, index.v, expr.id, index.st)
             ELSE Report("IndexTypeError", expr.id, this.st)
    [] expr.kind = "SetIndex" ->
         LET this == visit_expr(ctx, expr.obj, st)
         IN  IF this.k # "Ok" THEN this
             ELSE IF this.v.tag = "List"
             THEN LET index == visit_expr(ctx, expr.index, this.st)
                  IN  IF index.k # "Ok" THEN index
                      ELSE SetIndexList(ctx, this.v.v, index.v, expr.value, expr.id, index.st)
             ELSE IF this.v.tag = "Dict"
             THEN LET value == visit_expr(ctx, expr.value, this.st)
                  IN  IF value.k # "Ok" THEN value
                      ELSE LET index == visit_expr(ctx, expr.index, value.st)
                           IN  IF index.k # "Ok" THEN index
                               ELSE Ok(value.v, [index.st EXCEPT !.dicts[this.v.v] = Put(@, index.v, value.v)])
             ELSE Report("IndexTypeError", expr.id, this.st)

\* `while visit_expr(ctx, cond)?.is_truthy() { visit_stmt(ctx, body)?; }`
while_loop(ctx, stmt, st) ==
  LET c == visit_expr(ctx, stmt.cond, st)
      b == visit_stmt(ctx, stmt.body, [c.st EXCEPT !.fuel = @ - 1])
  IN  IF c.k # "Ok" THEN c
      ELSE IF ~is_truthy(c.v) THEN Ok(Nil, c.st)
      ELSE IF c.st.fuel = 0 THEN OutOfFuel(c.st)
      ELSE IF b.k # "Ok" THEN b ELSE while_loop(ctx, stmt, b.st)

\* A faulty block: the statements run in the context of the block's statement.
visit_stmt_Block_without_a_frame(ctx, stmt, st) ==
  LET r == interpret(ctx, stmt.statements, st)
  IN  IF r.k # "Ok" THEN r ELSE Ok(Nil, r.st)

\* StmtKind::Block: a child context, the statements, the value dropped
visit_stmt_Block(ctx, stmt, st) ==
  LET made == Ctx_with_parent(st, ctx)
      new_env == [made EXCEPT !.st.envs[made.ctx.env].scope = stmt.id]
      r == interpret(new_env.ctx, stmt.statements, new_env.st)
  IN  IF r.k # "Ok" THEN r ELSE Ok(Nil, r.st)

\* A faulty function statement: the closure is a copy of the current frame.
visit_stmt_Function_by_snapshot(ctx, stmt, st) ==
  LET st1 == [st EXCEPT !.envs = Append(@, st.envs[ctx.env])]
      function == [SimpleFunction(stmt.name, stmt.params, stmt.body, [ctx EXCEPT !.env = Len(st1.envs)])
                     EXCEPT !.id = stmt.id]
      st2 == NewFun(st1, function)
  IN  Ok(Nil, Ctx_define(st2, ctx, stmt.name, FunV(Len(st2.funs))))

\* StmtKind::Function: the closure is the current context itself
visit_stmt_Function(ctx, stmt, st) ==
  LET function == [SimpleFunction(stmt.name, stmt.params, stmt.body, ctx) EXCEPT !.id = stmt.id]
      st1 == NewFun(st, function)
  IN  Ok(Nil, Ctx_define(st1, ctx, stmt.name, FunV(Len(st1.funs))))

\* the statement is entered
Entered(st, stmt) == Log(st, Ev("stmt", stmt.id, Nil))

visit_stmt(ctx, stmt, st) ==
  CASE stmt.kind = "Expression" -> visit_expr(ctx, stmt.expr, Entered(st, stmt))
    [] stmt.kind = "Let" ->
         LET value == IF Len(stmt.initializer) = 1
                      THEN visit_expr(ctx, stmt.initializer[1], Entered(st, stmt))
                      ELSE Ok(Nil, Entered(st, stmt))
         IN  IF value.k # "Ok" THEN value
             ELSE Ok(Nil, Ctx_define(value.st, ctx, stmt.name, value.v))
    [] stmt.kind = "Block" -> visit_stmt_Block(ctx, stmt, Entered(st, stmt))
    [] stmt.kind = "If" ->
         LET value == visit_expr(ctx, stmt.cond, Entered(st, stmt))
         IN  IF value.k # "Ok" THEN value
             ELSE IF is_truthy(value.v) THEN visit_stmt(ctx, stmt.then_branch, value.st)
             ELSE IF Len(stmt.else_branch) = 1 THEN visit_stmt(ctx, stmt.else_branch[1], value.st)
             ELSE Ok(Nil, value.st)
    [] stmt.kind = "While" -> while_loop(ctx, stmt, Entered(st, stmt))
    [] stmt.kind = "Function" -> visit_stmt_Function(ctx, stmt, Entered(st, stmt))
    [] stmt.kind = "Return" ->
         LET value == IF Len(stmt.expr) = 1
                      THEN visit_expr(ctx, stmt.expr[1], Entered(st, stmt))
                      ELSE Ok(Nil, Entered(st, stmt))
         IN  IF value.k # "Ok" THEN value
             ELSE Return(value.v, Log(value.st, Ev("return", stmt.id, value.v)))

(***************************************************************************)
(* The driver (main.rs): Env::global, then run::inner for each line.       *)
(***************************************************************************)
\* Env::global(): the parentless frame holding the builtins
Env_global ==
  LET fs == <<Builtin("time", 0), Builtin("print", 0), Builtin("println", 0), Builtin("len", 1)>>
  IN  [envs |-> <<[values |-> [n \in {"time", "print", "println", "len"} |->
                     FunV(CHOOSE i \in 1..4 : fs[i].name = n)], enclosing |-> 0, scope |-> 0]>>,
       lists |-> <<>>, dicts |-> <<>>, funs |-> fs, trace |-> <<>>, out |-> <<>>,
       fuel |-> MaxFuel, mutb |-> {}, clock |-> 0, found |-> <<>>]

NoResult == [k |-> "None", v |-> Nil]

\* the statements of the line being run
statements == session.lines[line]

(***************************************************************************)
(* The inputs: sessions.  A session is [fam, p, lines]: the source lines   *)
(* given to one process (one line for a file, several for the repl), each  *)
(* as the parser hands it over, with the family and the parameters it was  *)
(* built from.  Concrete syntax is given in the comments.                  *)
(***************************************************************************)
I(id, n) == Lit(id, IntV(n))
ES(id, e) == Expression(id, e)
\* `nil;` `pre` times, in front of a line
Prefix(pre) == [j \in 1..pre |-> ES(900 + 2 * j, Lit(901 + 2 * j, Nil))]
Session(fam, p, lines) == [fam |-> fam, p |-> p, lines |-> lines]

Outer == {1, 2}
Inner == {3, 4}

\* { let x = o; { let x = i; x; } x; }
ShadowBlock(o, i) ==
  Block(10, <<Let(2, "x", <<I(1, o)>>),
              Block(7, <<Let(4, "x", <<I(3, i)>>), ES(6, Var(5, "x"))>>),
              ES(9, Var(8, "x"))>>)

\* shape 1: [nil;] { let x = o; { let x = i; x; } x; }
\* shape 2: [nil;] let x = o; { let x = i; x; } x;
\* shape 3: [nil;] fn f(x) { { let x = i; x; } x; } f(o);
Shadow(pre, shape, o, i) ==
  Session("shadow", <<pre, shape, o, i>>,
    <<Prefix(pre) \o
      (CASE shape = 1 -> <<ShadowBlock(o, i)>>
         [] shape = 2 -> ShadowBlock(o, i).statements
         [] shape = 3 ->
              <<Function(11, "f", <<"x">>, SubSeq(ShadowBlock(o, i).statements, 2, 3)),
                ES(15, Call(14, Var(12, "f"), <<I(13, o)>>))>>)
    >>)

\* let a = a;
LetAA == Let(2, "a", <<Var(1, "a")>>)

\* place 1: [nil;] [let a = 1;] let a = a;
\* place 2: [nil;] [let a = 1;] { let a = a; }
\* place 3: [nil;] [let a = 1;] fn f() { let a = a; } f();
SelfRef(pre, place, outer) ==
  Session("selfref", <<pre, place, outer>>,
    <<Prefix(pre) \o
      (IF outer THEN <<Let(4, "a", <<I(3, 1)>>)>> ELSE <<>>) \o
      (CASE place = 1 -> <<LetAA>>
         [] place = 2 -> <<Block(5, <<LetAA>>)>>
         [] place = 3 -> <<Function(6, "f", <<>>, <<LetAA>>), ES(9, Call(8, Var(7, "f"), <<>>))>>)
    >>)

\* the constructs a return can be nested in, and how deep the model nests them
Kinds == {"if", "else", "while", "block"}
MaxNest == 2
Nestings == UNION {[1..n -> Kinds] : n \in 0..MaxNest}

\* The statements at nesting level k of a function body: the construct kinds[k]
\* around the next level, and a sibling statement after it; innermost, `ret`
\* and a sibling.  With braces the construct's body is a block holding the
\* next level and its sibling, without them it is the next level's first
\* statement alone.  The siblings are the statements with an id >= 200.
RECURSIVE Nest(_, _, _, _)
Nest(kinds, k, braces, ret) ==
  IF k > Len(kinds) THEN <<ret, ES(200, I(201, 0))>>
  ELSE LET next == Nest(kinds, k + 1, braces, ret)
           body == IF braces THEN Block(10 * k + 1, next) ELSE next[1]
           w == CASE kinds[k] = "if" -> If(10 * k + 2, Lit(10 * k + 3, True), body, <<>>)
                  [] kinds[k] = "else" ->
                       If(10 * k + 2, Lit(10 * k + 3, False), ES(10 * k + 4, Lit(10 * k + 5, Nil)), <<body>>)
                  [] kinds[k] = "while" -> While(10 * k + 2, Lit(10 * k + 3, True), body)
                  [] kinds[k] = "block" -> Block(10 * k + 2, IF braces THEN next ELSE <<next[1]>>)
       IN  <<w, ES(200 + 10 * k, I(201 + 10 * k, k))>>

\* fn f() { <nesting of kinds around `return [7];`> } f();
Ret(kinds, braces, hasExpr) ==
  Session("ret", <<kinds, braces, hasExpr>>,
    <<<<Function(1, "f", <<>>,
          Nest(kinds, 1, braces, ReturnS(100, IF hasExpr THEN <<I(101, 7)>> ELSE <<>>))),
        ES(4, Call(3, Var(2, "f"), <<>>))>>>>)

Rets == {1, 2}

\* mode 1: fn f() { return r; } let s = 0; let i = 0;
\*         while (i < 2) { i = i + 1; s = s + f() + 10; } s;
\* mode 2: fn g() { return nil - 1; } fn h() { g(); 7; } h(); 6;
\* mode 3: return r; 6;
\* mode 4: nil; { return r; } 6;
\* mode 5: nil; while (true) { return r; } 6;
\* mode 6: return r;
CallRet(mode, r) ==
  Session("callret", <<mode, r>>,
    <<CASE mode = 1 ->
             <<Function(1, "f", <<>>, <<ReturnS(3, <<I(2, r)>>)>>),
               Let(5, "s", <<I(4, 0)>>),
               Let(7, "i", <<I(6, 0)>>),
               While(30, Binary(10, "Less", Var(8, "i"), I(9, 2)),
                 Block(29, <<ES(15, Assign(14, "i", Binary(13, "Plus", Var(11, "i"), I(12, 1)))),
                             ES(28, Assign(27, "s",
                               Binary(26, "Plus",
                                 Binary(24, "Plus", Var(20, "s"), Call(23, Var(22, "f"), <<>>)),
                                 I(25, 10))))>>)),
               ES(32, Var(31, "s"))>>
        [] mode = 2 ->
             <<Function(1, "g", <<>>, <<ReturnS(5, <<Binary(4, "Minus", Lit(2, Nil), I(3, 1))>>)>>),
               Function(6, "h", <<>>, <<ES(9, Call(8, Var(7, "g"), <<>>)), ES(11, I(10, 7))>>),
               ES(14, Call(13, Var(12, "h"), <<>>)),
               ES(90, I(91, 6))>>
        [] mode = 3 -> <<ReturnS(3, <<I(2, r)>>), ES(90, I(91, 6))>>
        [] mode = 4 -> Prefix(1) \o <<Block(4, <<ReturnS(3, <<I(2, r)>>)>>), ES(90, I(91, 6))>>
        [] mode = 5 ->
             Prefix(1) \o <<While(6, Lit(5, True), Block(4, <<ReturnS(3, <<I(2, r)>>)>>)), ES(90, I(91, 6))>>
        [] mode = 6 -> <<ReturnS(3, <<I(2, r)>>)>>
    >>)

Params == <<"a", "b">>
MaxArgs == 3

\* fn f(<np parameters>) { 1; } f(<na arguments>);
Arity(np, na) ==
  Session("arity", <<np, na>>,
    <<<<Function(1, "f", SubSeq(Params, 1, np), <<ES(3, I(2, 1))>>),
        ES(20, Call(19, Var(4, "f"), [j \in 1..na |-> I(4 + j, j)]))>>>>)

\* the statements of a line, one line each: the same program typed into the repl
OneByOne(stmts) == [j \in 1..Len(stmts) |-> <<stmts[j]>>]

\* fn get() { return x; }
FnGet == Function(6, "get", <<>>, <<ReturnS(5, <<Var(4, "x")>>)>>)

\* variant 1: let x = 1; fn get() { return x; } x = v; get();
\* variant 2: let x = 1; fn set() { x = v; } fn get() { return x; } set(); x; get();
ClosureStmts(variant, v) ==
  IF variant = 1
  THEN <<Let(2, "x", <<I(1, 1)>>), FnGet,
         ES(9, Assign(8, "x", I(7, v))),
         ES(13, Call(12, Var(11, "get"), <<>>))>>
  ELSE <<Let(2, "x", <<I(1, 1)>>),
         Function(24, "set", <<>>, <<ES(23, Assign(22, "x", I(21, v)))>>), FnGet,
         ES(33, Call(32, Var(31, "set"), <<>>)),
         ES(35, Var(34, "x")),
         ES(13, Call(12, Var(11, "get"), <<>>))>>

News == {2, 3}

\* place 1: the statements at top level, in one line
\* place 2: nil; { the statements }
\* place 3: fn outer() { the statements } outer();
\* place 4: the statements at top level, one line each
\* place 5: { the statements }
Closure(place, variant, v) ==
  Session("closure", <<place, variant, v>>,
    CASE place = 1 -> <<ClosureStmts(variant, v)>>
      [] place = 2 -> <<Prefix(1) \o <<Block(40, ClosureStmts(variant, v))>>>>
      [] place = 3 -> <<<<Function(40, "outer", <<>>, ClosureStmts(variant, v)),
                          ES(44, Call(43, Var(42, "outer"), <<>>))>>>>
      [] place = 4 -> OneByOne(ClosureStmts(variant, v))
      [] place = 5 -> <<<<Block(40, ClosureStmts(variant, v))>>>>)

\* `stmts` inside d nested blocks
RECURSIVE Blocks(_, _)
Blocks(d, stmts) == IF d = 0 THEN stmts ELSE <<Block(70 + d, Blocks(d - 1, stmts))>>

\* style 1: fn f(n) { {.. if (n <= 0) return 0; return f(n - 1); ..} }
\* style 2: fn f() { {.. if (c <= 0) return 0; c = c - 1; return f(); ..} }
\* the body d blocks deep
FnRec(style, d) ==
  IF style = 1
  THEN Function(80, "f", <<"n">>,
         Blocks(d, <<If(57, Binary(53, "LessEqual", Var(51, "n"), I(52, 0)), ReturnS(56, <<I(55, 0)>>), <<>>),
                     ReturnS(66, <<Call(65, Var(60, "f"), <<Binary(63, "Minus", Var(61, "n"), I(62, 1))>>)>>)>>))
  ELSE Function(80, "f", <<>>,
         Blocks(d, <<If(57, Binary(53, "LessEqual", Var(51, "c"), I(52, 0)), ReturnS(56, <<I(55, 0)>>), <<>>),
                     ES(59, Assign(58, "c", Binary(63, "Minus", Var(61, "c"), I(62, 1)))),
                     ReturnS(66, <<Call(65, Var(60, "f"), <<>>)>>)>>))

\* style 1: f(n)    style 2: f()
CallRec(style, id, n) == Call(id + 2, Var(id, "f"), IF style = 1 THEN <<I(id + 1, n)>> ELSE <<>>)

\* style 1: fn f(n) {..} f(n);    style 2: let c = n; fn f() {..} f();
RecStmts(style, d, n) ==
  (IF style = 1 THEN <<>> ELSE <<Let(41, "c", <<I(40, n)>>)>>) \o
  <<FnRec(style, d), ES(93, CallRec(style, 90, n))>>

\* <<d, n>>: the body d blocks deep, the first call with n; under outer() one
\* recursive call, elsewhere up to two or up to two blocks
RecShapes(place) ==
  IF place = 3 THEN {<<0, 1>>, <<1, 1>>} ELSE {<<0, 1>>, <<0, 2>>, <<1, 1>>, <<2, 1>>}

\* place 1: the statements at top level, in one line
\* place 2: nil; { the statements }
\* place 3: fn outer() { the statements, the last one as a return } outer(); outer();
\* place 4: the statements at top level, one line each
\* place 5: { the statements }
Rec(place, style, d, n) ==
  Session("rec", <<place, style, d, n>>,
    CASE place = 1 -> <<RecStmts(style, d, n)>>
      [] place = 2 -> <<Prefix(1) \o <<Block(99, RecStmts(style, d, n))>>>>
      [] place = 3 ->
           <<<<Function(100, "outer", <<>>,
                 SubSeq(RecStmts(style, d, n), 1, Len(RecStmts(style, d, n)) - 1) \o
                 <<ReturnS(93, <<CallRec(style, 90, n)>>)>>),
               ES(104, Call(103, Var(102, "outer"), <<>>)),
               ES(108, Call(107, Var(106, "outer"), <<>>))>>>>
      [] place = 4 -> OneByOne(RecStmts(style, d, n))
      [] place = 5 -> <<<<Block(99, RecStmts(style, d, n))>>>>)

\* the list of the setidx family, and the value expressions assigned into it
Base == <<IntV(10), IntV(20), IntV(30)>>
Values == {"literal", "l[j]", "l[i] + 1", "len(l)"}

\* e: 99  |  l[j]  |  l[i] + 1  |  len(l)
ValueExpr(e, i, j) ==
  CASE e = "literal" -> I(8, 99)
    [] e = "l[j]" -> GetIndex(10, Var(8, "l"), I(9, j))
    [] e = "l[i] + 1" -> Binary(12, "Plus", GetIndex(10, Var(8, "l"), I(9, i)), I(11, 1))
    [] e = "len(l)" -> Call(10, Var(8, "len"), <<Var(9, "l")>>)

\* let l = [10, 20, 30]; l[i] = e;    and then, in a second line,    l[i];
SetIdx(i, e, j) ==
  Session("setidx", <<i, e, j>>,
    <<<<Let(5, "l", <<ListE(4, <<I(1, 10), I(2, 20), I(3, 30)>>)>>),
        ES(20, SetIndex(19, Var(6, "l"), I(7, i), ValueExpr(e, i, j)))>>,
      <<ES(33, GetIndex(32, Var(30, "l"), I(31, i)))>>>>)

\* the index expressions that must fail on the list [10, 20]
Indexes == {"-1", "2", "5", "usize::MAX + 1", "\"a\"", "nil", "true", "l"}

IndexExpr(ik) ==
  CASE ik = "-1" -> Unary(8, "Minus", I(7, 1))
    [] ik = "2" -> I(7, 2)
    [] ik = "5" -> I(7, 5)
    [] ik = "usize::MAX + 1" -> I(7, UsizeMax + 1)
    [] ik = "\"a\"" -> Lit(7, StrV("a"))
    [] ik = "nil" -> Lit(7, Nil)
    [] ik = "true" -> Lit(7, True)
    [] ik = "l" -> Var(7, "l")

\* op 1: let l = [10, 20]; l[ik];
\* op 2: let l = [10, 20]; l[ik] = 99;
\* op 3: let l = [10, 20]; l[ik] = (l[0] = 98);
IdxErr(op, ik) ==
  Session("idxerr", <<op, ik>>,
    <<<<Let(5, "l", <<ListE(4, <<I(1, 10), I(2, 20)>>)>>),
        ES(20, CASE op = 1 -> GetIndex(19, Var(6, "l"), IndexExpr(ik))
                 [] op = 2 -> SetIndex(19, Var(6, "l"), IndexExpr(ik), I(9, 99))
                 [] op = 3 -> SetIndex(19, Var(6, "l"), IndexExpr(ik),
                                Grouping(16, SetIndex(15, Var(12, "l"), I(13, 0), I(14, 98)))))>>>>)

Keys == {IntV(1), IntV(2), StrV("a")}

\* let d = {1: 10}; d[k];
DictGet(k) ==
  Session("dictget", <<k>>,
    <<<<Let(5, "d", <<DictE(4, <<<<I(1, 1), I(2, 10)>>>>)>>),
        ES(9, GetIndex(8, Var(6, "d"), Lit(7, k)))>>>>)

MaxStmts == 3

\* A list of up to MaxStmts statements, the j-th (its id 10j + 9) of the kind kinds[j]:
\*   expr: `j;`   let: `let v = j;`   print: `println(j);`   fail: `nil - 1;`   return: `return j;`
StmtList(kinds) ==
  Session("seq", kinds,
    <<[j \in 1..Len(kinds) |->
        CASE kinds[j] = "expr" -> ES(10 * j + 9, I(10 * j, j))
          [] kinds[j] = "let" -> Let(10 * j + 9, "v", <<I(10 * j, j)>>)
          [] kinds[j] = "print" -> ES(10 * j + 9, Call(10 * j + 2, Var(10 * j, "println"), <<I(10 * j + 1, j)>>))
          [] kinds[j] = "fail" -> ES(10 * j + 9, Binary(10 * j + 2, "Minus", Lit(10 * j, Nil), I(10 * j + 1, 1)))
          [] kinds[j] = "return" -> ReturnS(10 * j + 9, <<I(10 * j, j)>>)]>>)

\* fn l() { return L; }  fn r() { println(0); return R; }  l() op r();
Logic(op, L, R) ==
  Session("logic", <<op, L, R>>,
    <<<<Function(1, "l", <<>>, <<ReturnS(3, <<Lit(2, L)>>)>>),
        Function(4, "r", <<>>, <<ES(8, Call(7, Var(5, "println"), <<I(6, 0)>>)), ReturnS(10, <<Lit(9, R)>>)>>),
        ES(20, Logical(19, op, Call(12, Var(11, "l"), <<>>), Call(14, Var(13, "r"), <<>>)))>>>>)

\* `c(a1, ..)` for a callee c that is no function, the j-th argument of the kind args[j]:
\*   lit: `j`   print: `println(j)`   fail: `nil - 1`
BadCallee(c, args) ==
  Session("callee", <<c, args>>,
    <<<<ES(50, Call(49, Lit(1, c),
          [j \in 1..Len(args) |->
            CASE args[j] = "lit" -> I(10 * j, j)
              [] args[j] = "print" -> Call(10 * j + 2, Var(10 * j, "println"), <<I(10 * j + 1, j)>>)
              [] args[j] = "fail" -> Binary(10 * j + 2, "Minus", Lit(10 * j, Nil), I(10 * j + 1, 1))]))>>>>)

\* A rejected line, after a first line of a repl session when `repl`:
\*   [let g = 1; nil;]
\*   println(1); let h = 2; BAD      or, with `first`,      BAD println(1); let h = 2;
\* BAD being   place 1: { let a = a; }   place 2: fn f() { let a = a; }
\*             place 3: while (false) { let a = a; }
Reject(repl, place, first) ==
  LET bad == CASE place = 1 -> Block(103, <<Let(102, "a", <<Var(101, "a")>>)>>)
               [] place = 2 -> Function(103, "f", <<>>, <<Let(102, "a", <<Var(101, "a")>>)>>)
               [] place = 3 -> While(105, Lit(104, False), Block(103, <<Let(102, "a", <<Var(101, "a")>>)>>))
      effects == <<ES(113, Call(112, Var(110, "println"), <<I(111, 1)>>)), Let(115, "h", <<I(114, 2)>>)>>
  IN  Session("reject", <<repl, place, first>>,
        (IF repl THEN <<<<Let(2, "g", <<I(1, 1)>>), ES(4, Lit(3, Nil))>>>> ELSE <<>>) \o
        <<IF first THEN <<bad>> \o effects ELSE effects \o <<bad>>>>)

\* A construct that decides on the truth of V, one of
\*   nil  false  true  0  0.0  ""  []  len
\* the construct being
\*   not: !V;     if: if (V) println(1); else println(2);     while: while (V) { println(1); return; }
\*   and: V and println(1);     or: V or println(1);
Truthy(c, v) ==
  LET V == CASE v = "nil" -> Lit(1, Nil)
             [] v = "false" -> Lit(1, False)
             [] v = "true" -> Lit(1, True)
             [] v = "0" -> I(1, 0)
             [] v = "0.0" -> Lit(1, FloatV(0, 1))
             [] v = "\"\"" -> Lit(1, StrV(""))
             [] v = "[]" -> ListE(1, <<>>)
             [] v = "len" -> Var(1, "len")
      println(id, n) == ES(id + 3, Call(id + 2, Var(id, "println"), <<I(id + 1, n)>>))
  IN  Session("truthy", <<c, v>>,
        <<CASE c = "not" -> <<ES(3, Unary(2, "Bang", V))>>
            [] c = "if" -> <<If(30, V, println(10, 1), <<println(20, 2)>>)>>
            [] c = "while" -> <<While(30, V, Block(20, <<println(10, 1), ReturnS(15, <<>>)>>))>>
            [] c = "and" -> <<ES(30, Logical(20, "And", V, println(10, 1).expr))>>
            [] c = "or" -> <<ES(30, Logical(20, "Or", V, println(10, 1).expr))>>>>)

\* A function g with the free variable x, and an x of the caller or a later x:
\*   variant 1: let x = 1; fn g() { return x; } fn h() { let x = 2; return g(); } println(h());
\*   variant 2: let x = 1; { fn g() { return x; } println(g()); let x = 3; println(g()); }
\*   variant 3: let x = 1; fn g() { return x; } println(g()); let x = 3; println(g());
\*   variant 4: let x = 1; fn g() { return x; } { let x = 2; println(g()); }
\* place 1: the statements at top level
\* place 2: nil; { the statements }
\* place 3: fn outer() { the statements } outer();
Scoping(place, variant) ==
  LET letx == Let(2, "x", <<I(1, 1)>>)
      g == Function(6, "g", <<>>, <<ReturnS(5, <<Var(4, "x")>>)>>)
      let2(v) == Let(11, "x", <<I(10, v)>>)
      print(b, f) == ES(b + 5, Call(b + 4, Var(b + 3, "println"), <<Call(b + 1, Var(b, f), <<>>)>>))
      stmts == CASE variant = 1 -> <<letx, g,
                                     Function(16, "h", <<>>, <<let2(2), ReturnS(15, <<Call(13, Var(12, "g"), <<>>)>>)>>),
                                     print(20, "h")>>
                 [] variant = 2 -> <<letx, Block(40, <<g, print(20, "g"), let2(3), print(30, "g")>>)>>
                 [] variant = 3 -> <<letx, g, print(20, "g"), let2(3), print(30, "g")>>
                 [] variant = 4 -> <<letx, g, Block(40, <<let2(2), print(20, "g")>>)>>
  IN  Session("scoping", <<place, variant>>,
        CASE place = 1 -> <<stmts>>
          [] place = 2 -> <<Prefix(1) \o <<Block(50, stmts)>>>>
          [] place = 3 -> <<<<Function(50, "outer", <<>>, stmts),
                              ES(54, Call(53, Var(52, "outer"), <<>>))>>>>)

\* Two names for a container C (the list [1] or the dict {0: 1}), an index-set
\* through b and a read through a:
\*   let:    let a = C; let b = a; b[0] = 5; println(a[0]);
\*   assign: let a = C; let b = nil; b = a; b[0] = 5; println(a[0]);
\*   arg:    let a = C; fn f(b) { b[0] = 5; } f(a); println(a[0]);
\*   two:    let a = C; let b = C; b[0] = 5; println(a[0]);
\*   fn:     fn mk() { return C; } let a = mk(); let b = mk(); b[0] = 5; println(a[0]);
\*   loop:   let a = nil; let b = nil; let i = 0;
\*           while (i < 2) { b = a; a = C; i = i + 1; } b[0] = 5; println(a[0]);
\* at top level, or with `inBlock` as   nil; { the statements }
Alias(kind, how, inBlock) ==
  LET C(id) == IF kind = "list" THEN ListE(id + 2, <<I(id, 1)>>)
               ELSE DictE(id + 2, <<<<I(id, 0), I(id + 1, 1)>>>>)
      set == ES(64, SetIndex(63, Var(60, "b"), I(61, 0), I(62, 5)))
      show == ES(76, Call(75, Var(70, "println"), <<GetIndex(73, Var(71, "a"), I(72, 0))>>))
      leta == Let(5, "a", <<C(1)>>)
      stmts ==
        CASE how = "let" -> <<leta, Let(11, "b", <<Var(10, "a")>>), set, show>>
          [] how = "assign" -> <<leta, Let(11, "b", <<Lit(10, Nil)>>), ES(14, Assign(13, "b", Var(12, "a"))), set, show>>
          [] how = "arg" -> <<leta, Function(20, "f", <<"b">>, <<set>>),
                              ES(24, Call(23, Var(21, "f"), <<Var(22, "a")>>)), show>>
          [] how = "two" -> <<leta, Let(11, "b", <<C(6)>>), set, show>>
          [] how = "fn" -> <<Function(20, "mk", <<>>, <<ReturnS(4, <<C(1)>>)>>),
                             Let(24, "a", <<Call(23, Var(22, "mk"), <<>>)>>),
                             Let(28, "b", <<Call(27, Var(26, "mk"), <<>>)>>), set, show>>
          [] how = "loop" ->
               <<Let(31, "a", <<Lit(30, Nil)>>), Let(33, "b", <<Lit(32, Nil)>>), Let(35, "i", <<I(34, 0)>>),
                 While(50, Binary(38, "Less", Var(36, "i"), I(37, 2)),
                   Block(49, <<ES(42, Assign(41, "b", Var(40, "a"))),
                               ES(44, Assign(43, "a", C(1))),
                               ES(48, Assign(47, "i", Binary(46, "Plus", Var(45, "i"), I(39, 1))))>>)),
                 set, show>>
  IN  Session("alias", <<kind, how, inBlock>>,
        <<IF inBlock THEN Prefix(1) \o <<Block(80, stmts)>> ELSE stmts>>)

\* A failing expression BAD (`nil - 1`, `u`, `nil()`) inside a construct, with
\* statements after it at every level, and a second line of the repl session:
\*   let g = 1; CONSTRUCT let k = 2;
\*   g;
\* CONSTRUCT being
\*   stmt:    BAD; println(9);
\*   operand: BAD + println(9); println(9);
\*   arg:     println(BAD, println(9)); println(9);
\*   let:     let h = BAD; println(9);
\*   block:   { BAD; println(9); } println(9);
\*   if:      if (true) { BAD; println(9); } println(9);
\*   cond:    if (BAD) println(9); else println(9); println(9);
\*   while:   while (true) { BAD; println(9); } println(9);
\*   call:    fn f() { BAD; println(9); return 1; } f(); println(9);
\*   return:  fn f() { return BAD; } println(f()); println(9);
\*   deep:    fn f() { BAD; println(9); } { while (true) { f(); println(9); } println(9); } println(9);
Fails(err, where) ==
  LET BAD == CASE err = "UnsupportedOperation" -> Binary(3, "Minus", Lit(1, Nil), I(2, 1))
               [] err = "UndefinedValue" -> Var(3, "u")
               [] err = "CalleeTypeError" -> Call(3, Lit(1, Nil), <<>>)
      p(b) == ES(b + 3, Call(b + 2, Var(b, "println"), <<I(b + 1, 9)>>))
      callf == Call(44, Var(43, "f"), <<>>)
      construct ==
        CASE where = "stmt" -> <<ES(8, BAD), p(10)>>
          [] where = "operand" -> <<ES(9, Binary(8, "Plus", BAD, p(10).expr)), p(20)>>
          [] where = "arg" -> <<ES(9, Call(8, Var(50, "println"), <<BAD, p(10).expr>>)), p(20)>>
          [] where = "let" -> <<Let(8, "h", <<BAD>>), p(10)>>
          [] where = "block" -> <<Block(9, <<ES(8, BAD), p(10)>>), p(20)>>
          [] where = "if" -> <<If(9, Lit(30, True), Block(31, <<ES(8, BAD), p(10)>>), <<>>), p(20)>>
          [] where = "cond" -> <<If(9, BAD, p(10), <<p(14)>>), p(20)>>
          [] where = "while" -> <<While(9, Lit(30, True), Block(31, <<ES(8, BAD), p(10)>>)), p(20)>>
          [] where = "call" -> <<Function(40, "f", <<>>, <<ES(8, BAD), p(10), ReturnS(33, <<I(32, 1)>>)>>),
                                 ES(45, callf), p(20)>>
          [] where = "return" -> <<Function(40, "f", <<>>, <<ReturnS(8, <<BAD>>)>>),
                                   ES(52, Call(51, Var(50, "println"), <<callf>>)), p(20)>>
          [] where = "deep" -> <<Function(40, "f", <<>>, <<ES(8, BAD), p(10)>>),
                                 Block(60, <<While(61, Lit(62, True), Block(63, <<ES(45, callf), p(14)>>)), p(20)>>),
                                 p(24)>>
  IN  Session("fails", <<err, where>>,
        <<<<Let(5, "g", <<I(4, 1)>>)>> \o construct \o <<Let(7, "k", <<I(6, 2)>>)>>,
          <<ES(95, Var(94, "g"))>>>>)

\* A function whose body ends without a return, and its call:
\*   fn f() { [5;] LAST } f();
\* LAST being
\*   expr:    7;                              ifthen:  if (true) 7; else 8;
\*   ifelse:  if (false) 7; else 8;           ifnone:  if (false) 7;
\*   ifblock: if (true) { 7; }                let:     let v = 7;
\*   block:   { 7; }                          while:   let i = 0; while (i < 1) i = i + 1;
\*   fn:      fn g() { return 7; }            empty:   no statement
Ending(pre, last) ==
  LET e(id, n) == ES(id + 1, I(id, n))
      LAST ==
        CASE last = "expr" -> <<e(10, 7)>>
          [] last = "ifthen" -> <<If(20, Lit(14, True), e(10, 7), <<e(12, 8)>>)>>
          [] last = "ifelse" -> <<If(20, Lit(14, False), e(10, 7), <<e(12, 8)>>)>>
          [] last = "ifnone" -> <<If(20, Lit(14, False), e(10, 7), <<>>)>>
          [] last = "ifblock" -> <<If(20, Lit(14, True), Block(15, <<e(10, 7)>>), <<>>)>>
          [] last = "let" -> <<Let(11, "v", <<I(10, 7)>>)>>
          [] last = "block" -> <<Block(15, <<e(10, 7)>>)>>
          [] last = "while" ->
               <<Let(11, "i", <<I(10, 0)>>),
                 While(30, Binary(22, "Less", Var(20, "i"), I(21, 1)),
                   ES(28, Assign(27, "i", Binary(26, "Plus", Var(24, "i"), I(25, 1)))))>>
          [] last = "fn" -> <<Function(15, "g", <<>>, <<ReturnS(11, <<I(10, 7)>>)>>)>>
          [] last = "empty" -> <<>>
  IN  Session("last", <<pre, last>>,
        <<<<Function(40, "f", <<>>, (IF pre THEN <<e(1, 5)>> ELSE <<>>) \o LAST),
            ES(45, Call(44, Var(43, "f"), <<>>))>>>>)

\* A recursive function with the parameter n, declared beside an n and called
\* with A, from the declaring scope or from h, which has an n of its own:
\*   let n = 9;
\*   fn f(n) { if (n <= 0) return 0; let r = f(n - 1); return n + r; }
\*   println(f(A));      or      fn h() { let n = 8; let v = f(A); return v + n; } println(h());
\*   println(n);
\* at top level, or with `inBlock` as   nil; { the statements }
Activation(inBlock, fromH, A) ==
  LET f == Function(30, "f", <<"n">>,
             <<If(14, Binary(12, "LessEqual", Var(10, "n"), I(11, 0)), ReturnS(16, <<I(15, 0)>>), <<>>),
               Let(24, "r", <<Call(23, Var(18, "f"), <<Binary(21, "Minus", Var(19, "n"), I(20, 1))>>)>>),
               ReturnS(29, <<Binary(28, "Plus", Var(26, "n"), Var(27, "r"))>>)>>)
      h == Function(60, "h", <<>>,
             <<Let(51, "n", <<I(50, 8)>>),
               Let(56, "v", <<Call(55, Var(52, "f"), <<I(54, A)>>)>>),
               ReturnS(59, <<Binary(58, "Plus", Var(57, "v"), Var(53, "n"))>>)>>)
      print(id, e) == ES(id + 2, Call(id + 1, Var(id, "println"), <<e>>))
      stmts == <<Let(2, "n", <<I(1, 9)>>), f>> \o
               (IF fromH THEN <<h, print(70, Call(43, Var(41, "h"), <<>>))>>
                ELSE <<print(70, Call(43, Var(41, "f"), <<I(42, A)>>))>>) \o
               <<print(80, Var(47, "n"))>>
  IN  Session("activation", <<inBlock, fromH, A>>,
        <<IF inBlock THEN Prefix(1) \o <<Block(90, stmts)>> ELSE stmts>>)

\* An assignment to x, with or without a global x and a local x declared before:
\*   place 1: [nil;] [let x = 0;] println(x = 2);
\*   place 2: [nil;] [let x = 0;] { [let x = 1;] println(x = 2); }
\*   place 3: [nil;] [let x = 0;] { [let x = 1;] { println(x = 2); } }
\*   place 4: [nil;] [let x = 0;] { let x = x = 2; }
\*   place 5: [nil;] [let x = 0;] fn f() { [let x = 1;] println(x = 2); } f();
Assigns(pre, outer, place, decl) ==
  LET assign == Assign(6, "x", I(5, 2))
      print == ES(9, Call(8, Var(7, "println"), <<assign>>))
      local == IF decl THEN <<Let(4, "x", <<I(3, 1)>>)>> ELSE <<>>
  IN  Session("assign", <<pre, outer, place, decl>>,
        <<Prefix(pre) \o
          (IF outer THEN <<Let(2, "x", <<I(1, 0)>>)>> ELSE <<>>) \o
          (CASE place = 1 -> <<print>>
             [] place = 2 -> <<Block(10, local \o <<print>>)>>
             [] place = 3 -> <<Block(10, local \o <<Block(11, <<print>>)>>)>>
             [] place = 4 -> <<Block(10, <<Let(12, "x", <<assign>>)>>)>>
             [] place = 5 -> <<Function(13, "f", <<>>, local \o <<print>>),
                               ES(16, Call(15, Var(14, "f"), <<>>))>>)
        >>)

InitSession ==
  \/ \E pre \in 0..1, shape \in 1..3, o \in Outer, i \in Inner : session = Shadow(pre, shape, o, i)
  \/ \E pre \in 0..1, place \in 1..3, outer \in BOOLEAN : session = SelfRef(pre, place, outer)
  \/ \E kinds \in Nestings, braces \in BOOLEAN, hasExpr \in BOOLEAN : session = Ret(kinds, braces, hasExpr)
  \/ \E mode \in 1..6, r \in Rets : session = CallRet(mode, r)
  \/ \E np \in 0..Len(Params), na \in 0..MaxArgs : session = Arity(np, na)
  \/ \E place \in 1..5, variant \in 1..2, v \in News : session = Closure(place, variant, v)
  \/ \E place \in 1..5, style \in 1..2 : \E s \in RecShapes(place) : session = Rec(place, style, s[1], s[2])
  \/ \E i \in 0..2, e \in Values, j \in 0..2 : session = SetIdx(i, e, IF e = "l[j]" THEN j ELSE 0)
  \/ \E op \in 1..3, ik \in Indexes : session = IdxErr(op, ik)
  \/ \E k \in Keys : session = DictGet(k)
  \/ \E n \in 0..MaxStmts : \E kinds \in [1..n -> {"expr", "let", "print", "fail", "return"}] : session = StmtList(kinds)
  \/ \E op \in {"Or", "And"}, L, R \in {Nil, False, True, IntV(0), StrV(""), IntV(2)} : session = Logic(op, L, R)
  \/ \E c \in {Nil, IntV(5), StrV("f")}, n \in 0..2 : \E args \in [1..n -> {"lit", "print", "fail"}] : session = BadCallee(c, args)
  \/ \E repl \in BOOLEAN, place \in 1..3, first \in BOOLEAN : session = Reject(repl, place, first)
  \/ \E c \in {"not", "if", "while", "and", "or"},
        v \in {"nil", "false", "true", "0", "0.0", "\"\"", "[]", "len"} : session = Truthy(c, v)
  \/ \E pre \in 0..1, outer \in BOOLEAN, place \in 1..5, decl \in BOOLEAN :
        /\ place \in {1, 4} => ~decl
        /\ session = Assigns(pre, outer, place, decl)
  \/ \E place \in 1..3, variant \in 1..4 : session = Scoping(place, variant)
  \/ \E kind \in {"list", "dict"}, how \in {"let", "assign", "arg", "two", "fn", "loop"}, inBlock \in BOOLEAN :
        session = Alias(kind, how, inBlock)
  \/ \E err \in {"UnsupportedOperation", "UndefinedValue", "CalleeTypeError"},
        where \in {"stmt", "operand", "arg", "let", "block", "if", "cond", "while", "call", "return", "deep"} :
        session = Fails(err, where)
  \/ \E pre \in BOOLEAN,
        last \in {"expr", "ifthen", "ifelse", "ifnone", "ifblock", "let", "block", "while", "fn", "empty"} :
        /\ last = "empty" => ~pre
        /\ session = Ending(pre, last)
  \/ \E inBlock \in BOOLEAN, fromH \in BOOLEAN, A \in 1..2 : session = Activation(inBlock, fromH, A)

Init ==
  /\ InitSession
  /\ build \in {"debug", "release"}
  /\ line = 1
  /\ pc = "prompt"
  /\ resolvers = <<>>
  /\ store = Env_global
  /\ result = NoResult

\* the repl's readline (or the file read), the lexer and the parser: the next line
ReadLine ==
  /\ pc = "prompt"
  /\ line <= Len(session.lines)
  /\ pc' = "parsed"
  /\ result' = NoResult
  /\ UNCHANGED <<session, build, line, resolvers, store>>

\* run::inner: Resolver::default().resolve(&statements)?
Resolve ==
  /\ pc = "parsed"
  /\ \E rs \in {resolve(Resolver_default, statements)} :
       IF rs.ok
       THEN /\ resolvers' = Append(resolvers, rs.locals)
            /\ store' = [store EXCEPT !.found = Append(@, rs.found)]
            /\ pc' = "resolved"
            /\ result' = result
       ELSE /\ resolvers' = resolvers
            /\ store' = store
            /\ pc' = "failed"
            /\ result' = [k |-> "Report", v |-> [err |-> "ReadLocalVariableInOwnInitializer", span |-> rs.span]]
  /\ UNCHANGED <<session, build, line>>

\* run::inner: Ctx::new(env, resolver) and interpret(&context, &statements)
Interpret ==
  /\ pc = "resolved"
  /\ \E r \in {interpret(Ctx_new(1, Len(resolvers)), statements, [store EXCEPT !.trace = <<>>, !.fuel = MaxFuel])} :
       /\ store' = r.st
       /\ result' = [k |-> r.k, v |-> r.v]
  /\ pc' = "evaluated"
  /\ UNCHANGED <<session, build, line, resolvers>>

\* run::inner's match on the result, and the caller printing the value or the report
Finish ==
  /\ pc \in {"evaluated", "failed"}
  /\ result.k \in {"Ok", "Return", "Report"}
  /\ result' = IF result.k = "Return" THEN [result EXCEPT !.k = "Ok"] ELSE result
  /\ store' = [store EXCEPT !.out = Append(@, [fn |-> "run", args |-> <<result'>>])]
  /\ pc' = "prompt"
  /\ line' = line + 1
  /\ UNCHANGED <<session, build, resolvers>>

\* a panic unwinds out of main: the process is gone
Abort ==
  /\ pc = "evaluated"
  /\ result.k = "Panic"
  /\ pc' = "aborted"
  /\ UNCHANGED <<session, build, line, resolvers, store, result>>

\* end of input: the repl loop breaks, the file run returns
Eof ==
  /\ pc = "prompt"
  /\ line > Len(session.lines)
  /\ pc' = "exit"
  /\ UNCHANGED <<session, build, line, resolvers, store, result>>

Next == ReadLine \/ Resolve \/ Interpret \/ Finish \/ Abort \/ Eof

Spec == Init /\ [][Next]_vars

\* no session of the model runs out of fuel: the cut-off never decides a claim
FuelSuffices == result.k # "Fuel"

(***************************************************************************)
(* Reading the evaluation trace.                                           *)
(***************************************************************************)
trace == store.trace

\* the values the reads of the Variable node `id` yielded, in order
Gets(id) ==
  LET hits == SelectSeq(trace, LAMBDA e : e.ev = "get" /\ e.id = id)
  IN  [j \in 1..Len(hits) |-> hits[j].val]

\* the statement `id` was executed
Ran(id) == \E j \in 1..Len(trace) : trace[j].ev = "stmt" /\ trace[j].id = id

Count(ev, j) == Cardinality({i \in 1..j : trace[i].ev = ev})

\* the number of calls open just after the j-th event
Depth(j) == Count("enter", j) - Count("exit", j) - Count("fail", j)

\* the line of a one-line session has been evaluated
Evaluated(fam) == session.fam = fam /\ pc = "evaluated"

(***************************************************************************)
(* Shadowing.                                                              *)
(***************************************************************************)
\* C1: in every program of the shadow family, whatever the length of its
\* statement list, the read of x inside the inner block yields the inner value
\* and the read of x in the outer block, after the inner block, the outer value.
C1_Shadowing ==
  Evaluated("shadow") =>
    /\ result.k = "Ok"
    /\ Gets(5) = <<IntV(session.p[4])>>
    /\ Gets(8) = <<IntV(session.p[3])>>

(***************************************************************************)
(* Self-reference rejection.                                               *)
(***************************************************************************)
\* C2: a program holding `let a = a` is rejected by the resolver with
\* ReadLocalVariableInOwnInitializer, wherever the let stands, whether or not
\* an outer a exists, whatever the length of the list: it is never evaluated.
C2_SelfReferenceRejected ==
  session.fam = "selfref" =>
    /\ pc \notin {"resolved", "evaluated", "aborted"}
    /\ pc = "failed" => result.v.err = "ReadLocalVariableInOwnInitializer"

(***************************************************************************)
(* Return.                                                                 *)
(***************************************************************************)
\* the value the function of the ret family returns
RetValue == IF session.p[3] THEN IntV(7) ELSE Nil

\* C3: a return executed inside a call, under any nesting of if, while and
\* block, is followed at once by the end of that call with the returned value
\* (Nil without an expression): no statement runs in between, so no sibling at
\* any level and no further iteration of an enclosing while.
C3_ReturnEndsTheCall ==
  /\ \A j \in 1..Len(trace) :
        (trace[j].ev = "return" /\ Depth(j) > 0) =>
          /\ j < Len(trace)
          /\ trace[j + 1].ev = "exit"
          /\ trace[j + 1].val = trace[j].val
  /\ Evaluated("ret") =>
        /\ result.k = "Ok" /\ result.v = RetValue
        /\ Gets(2) = <<FunV(trace[Len(trace)].id)>>
        /\ \A j \in 1..Len(trace) : trace[j].ev = "stmt" => trace[j].id < 200
        /\ Cardinality({j \in 1..Len(trace) : trace[j].ev = "stmt" /\ trace[j].id = 100}) = 1

\* a return under a while under an if, with sibling statements at each level,
\* has ended its call
C3_Witness ==
  /\ Evaluated("ret")
  /\ session.p[1] = <<"if", "while">>
  /\ session.p[2]
  /\ Ran(100)
  /\ \E j \in 1..Len(trace) : trace[j].ev = "exit" /\ trace[j].val = RetValue

(***************************************************************************)
(* The call boundary.                                                      *)
(***************************************************************************)
\* C4: call() makes a Return of run() the value of the call and the caller goes
\* on with its operands, its loop and its statements; a Return leaves the
\* evaluator only when raised outside every call, and then it ends as the
\* program's value; a report of run() passes through call() as it is.
C4_ReturnStopsAtTheCall ==
  /\ (pc = "evaluated" /\ result.k = "Return") =>
        /\ Len(trace) > 0
        /\ Last(trace).ev = "return"
        /\ Last(trace).val = result.v
        /\ Depth(Len(trace)) = 0
  /\ pc = "evaluated" =>
        \A j \in 1..Len(trace) : trace[j].ev = "fail" => result.k = "Report" /\ result.v = trace[j].val
  /\ (pc = "prompt" /\ line > 1) => result.k \in {"Ok", "Report"}
  /\ (Evaluated("callret") /\ session.p[1] = 1) =>
        /\ result.k = "Ok" /\ result.v = IntV(2 * (session.p[2] + 10))
        /\ Count("exit", Len(trace)) = 2
  /\ (Evaluated("callret") /\ session.p[1] = 2) =>
        /\ result.k = "Report" /\ result.v = [err |-> "UnsupportedOperation", span |-> 4]
        /\ Count("fail", Len(trace)) = 2
        /\ ~Ran(11) /\ ~Ran(90)
  /\ (Evaluated("callret") /\ session.p[1] \in 3..6) =>
        /\ result.k = "Return" /\ result.v = IntV(session.p[2])
        /\ ~Ran(90)
  /\ (session.fam = "callret" /\ session.p[1] \in 3..6 /\ pc = "prompt" /\ line > 1) =>
        result.k = "Ok" /\ result.v = IntV(session.p[2])

\* the caller's loop has gone on after two calls that returned
C4_Witness ==
  /\ Evaluated("callret")
  /\ session.p[1] = 1
  /\ Count("return", Len(trace)) = 2
  /\ Gets(31) = <<IntV(2 * (session.p[2] + 10))>>

(***************************************************************************)
(* Arity.                                                                  *)
(***************************************************************************)
\* C5: a call with a number of arguments other than the number of parameters
\* ends in a report, and the body is not run.
C5_ArityMismatchIsReported ==
  (Evaluated("arity") /\ session.p[1] # session.p[2]) =>
    /\ result.k = "Report"
    /\ ~Ran(3)

(***************************************************************************)
(* Closures.                                                               *)
(***************************************************************************)
\* the last line of the session has been evaluated
EvaluatedLast(fam) == Evaluated(fam) /\ line = Len(session.lines)

\* C6: a function reads the variables of its defining context as they are at
\* the call: the value assigned after the function was created (variant 1),
\* the value another closure over the same frame assigned (variant 2), which
\* the defining scope reads too.
C6_ClosuresShareTheFrame ==
  session.fam = "closure" =>
    /\ \A j \in 1..Len(trace) :
          (trace[j].ev = "get" /\ trace[j].id \in {4, 34}) => trace[j].val = IntV(session.p[3])
    /\ (EvaluatedLast("closure") /\ session.p[1] \in 1..4) =>
          /\ result.k = "Ok"
          /\ Gets(4) = <<IntV(session.p[3])>>
    /\ (EvaluatedLast("closure") /\ session.p[1] \in {1, 4}) => result.v = IntV(session.p[3])
    /\ (EvaluatedLast("closure") /\ session.p[1] \in 1..3 /\ session.p[2] = 2) =>
          Gets(34) = <<IntV(session.p[3])>>
    /\ (Evaluated("closure") /\ session.p[1] = 4 /\ session.p[2] = 2 /\ line = 5) =>
          Gets(34) = <<IntV(session.p[3])>>

\* in a function body, set() has assigned x and both the defining scope and
\* get() have read it
C6_Witness ==
  /\ EvaluatedLast("closure")
  /\ session.p[1] = 3
  /\ session.p[2] = 2
  /\ Len(Gets(34)) = 1
  /\ Len(Gets(4)) = 1
  /\ Count("exit", Len(trace)) = 3

(***************************************************************************)
(* Recursion.                                                              *)
(***************************************************************************)
\* the calls open just after the j-th event, as the places of their "enter"
Open(j) == {i \in 1..j : trace[i].ev = "enter" /\ \A m \in i..j : Depth(m) >= Depth(i)}

\* the function of the innermost call open at the j-th event
Innermost(j) == trace[CHOOSE i \in Open(j) : \A i2 \in Open(j) : i2 <= i].id

\* the sessions of the rec family in which f gets called and can read what it
\* needs to recurse
Recurses == session.p[1] \in 1..3 \/ (session.p[1] = 4 /\ session.p[2] = 2)

\* C7: every read of f inside the body of f (node 60, under 0 to 2
\* blocks) yields the function whose body is running, on the first call and on
\* the recursive ones; the calls recurse down to 0 and return.
C7_OwnNameIsTheFunction ==
  session.fam = "rec" =>
    /\ \A j \in 1..Len(trace) :
          (trace[j].ev = "get" /\ trace[j].id = 60) =>
            /\ Open(j) # {}
            /\ trace[j].val = FunV(Innermost(j))
    /\ (EvaluatedLast("rec") /\ Recurses) =>
          /\ result.k = "Ok"
          /\ Len(Gets(60)) = session.p[4] * (IF session.p[1] = 3 THEN 2 ELSE 1)
    /\ (EvaluatedLast("rec") /\ Recurses /\ session.p[1] # 2) => result.v = IntV(0)

\* two instances of f, made by two calls of outer, have each read f from under
\* a block of the body and recursed
C7_Witness ==
  /\ EvaluatedLast("rec")
  /\ session.p = <<3, 1, 1, 1>>
  /\ result.k = "Ok"
  /\ Len(Gets(60)) = 2
  /\ Gets(60)[1] # Gets(60)[2]

(***************************************************************************)
(* Lists and dicts.                                                        *)
(***************************************************************************)
\* the value of the expression e of a setidx session
Assigned ==
  CASE session.p[2] = "literal" -> IntV(99)
    [] session.p[2] = "l[j]" -> Base[session.p[3] + 1]
    [] session.p[2] = "l[i] + 1" -> IntV(Base[session.p[1] + 1].v + 1)
    [] session.p[2] = "len(l)" -> IntV(Len(Base))

\* C8: `l[i] = e` with i in bounds completes normally with the value of e,
\* whether or not e reads l; afterwards l[i] is that value, and the length of
\* l and its other elements are as before.
C8_SetIndexCompletes ==
  Evaluated("setidx") =>
    /\ result.k = "Ok" /\ result.v = Assigned
    /\ store.lists[1] = [Base EXCEPT ![session.p[1] + 1] = Assigned]

\* the report the claim names for the index ik on a list of two elements
IndexError(ik) ==
  IF ik \in {"2", "5"} THEN "ListIndexOutOfBoundsError" ELSE "ListIndexInvalidError"

\* C9: an index get or set on a list with an index that is no Integer, or an
\* Integer that does not convert to the size type, is reported as
\* ListIndexInvalidError; with a converted index >= the length, as
\* ListIndexOutOfBoundsError; the list is as it was.
C9_ListIndexErrors ==
  Evaluated("idxerr") =>
    /\ result.k = "Report" /\ result.v = [err |-> IndexError(session.p[2]), span |-> 19]
    /\ store.lists[1] = <<IntV(10), IntV(20)>>

\* a set with the index -1, its value expression an assignment into the same
\* list, has been reported
C9_Witness ==
  /\ Evaluated("idxerr")
  /\ session.p = <<3, "-1">>
  /\ result.k = "Report"
  /\ Len(Gets(6)) = 1

\* C10: reading d[k] for a key k that d does not hold is reported as
\* DictKeyError at the index expression, evaluation does not abort, and the
\* dict is as it was.
C10_MissingKeyIsReported ==
  (Evaluated("dictget") /\ session.p[1] # IntV(1)) =>
    /\ result.k = "Report" /\ result.v = [err |-> "DictKeyError", span |-> 8]
    /\ store.dicts[1] = (IntV(1) :> IntV(10))

(***************************************************************************)
(* Env::get and Env::assign on their own (env.rs): every chain of at most  *)
(* MaxChain frames over two names, every distance up to one more than the  *)
(* chain has frames.  Frame e binds its names to the Integer e, so a value *)
(* read tells the frame it came from; frame 1 is the parentless one and    *)
(* the call starts at the last frame.                                      *)
(***************************************************************************)
MaxChain == 3

\* Env::with_parent, repeated: frame e encloses frame e + 1
EnvChain(frames) ==
  [e \in 1..Len(frames) |-> [values |-> [n \in frames[e] |-> IntV(e)], enclosing |-> e - 1, scope |-> 0]]

EnvInit ==
  /\ \E len \in 1..MaxChain : \E frames \in [1..len -> SUBSET {"x", "y"}] :
       \E distance \in 0..(MaxChain + 1), name \in {"x", "y"} :
         session = [fam |-> "env", p |-> [frames |-> frames, distance |-> distance, name |-> name], lines |-> <<>>]
  /\ build \in {"debug", "release"}
  /\ line = 1
  /\ pc = "env"
  /\ resolvers = <<>>
  /\ store = [Env_global EXCEPT !.envs = EnvChain(session.p.frames)]
  /\ result = NoResult

\* env.borrow().get(distance, name)
EnvGet ==
  /\ pc = "env"
  /\ LET r == Env_get(store, Len(store.envs), session.p.distance, session.p.name)
     IN  /\ store' = r.st
         /\ result' = [k |-> r.k, v |-> r.v]
  /\ pc' = "got"
  /\ UNCHANGED <<session, build, line, resolvers>>

\* env.borrow_mut().assign(distance, name, value), the value being the Integer 0
EnvAssign ==
  /\ pc = "env"
  /\ LET r == Env_assign(store, Len(store.envs), session.p.distance, session.p.name, IntV(0))
     IN  /\ store' = r.st
         /\ result' = [k |-> r.k, v |-> r.v]
  /\ pc' = "assigned"
  /\ UNCHANGED <<session, build, line, resolvers>>

EnvNext == EnvGet \/ EnvAssign

EnvSpec == EnvInit /\ [][EnvNext]_vars

\* C11: get and assign consult only the frame exactly `distance` links above
\* the starting frame.  When that frame binds the name, get yields its value
\* and assign replaces it there and nowhere else; when the chain is too short
\* or that frame does not bind the name (whatever nearer or farther frames
\* bind), the call returns UndefinedValue, does not abort, and leaves every
\* frame as it was.
C11_OnlyTheFrameAtTheDistance ==
  LET frames == session.p.frames
      \* the frame `distance` links above the starting frame; 0 when the chain is too short
      target == IF session.p.distance < Len(frames) THEN Len(frames) - session.p.distance ELSE 0
  IN  pc \in {"got", "assigned"} =>
        IF target # 0 /\ session.p.name \in frames[target]
        THEN /\ result.k = "Ok"
             /\ pc = "got" => result.v = IntV(target) /\ store.envs = EnvChain(frames)
             /\ pc = "assigned" =>
                  store.envs = [EnvChain(frames) EXCEPT ![target].values[session.p.name] = IntV(0)]
        ELSE /\ result.k = "Report"
             /\ result.v.err = "UndefinedValue"
             /\ store.envs = EnvChain(frames)

(***************************************************************************)
(* Statement lists.                                                        *)
(***************************************************************************)
\* C12: interpret executes the statements of a list in source order, each at
\* most once, up to the first that does not complete (a report or a return);
\* when all complete, the result is the value of the last statement (Nil for
\* the empty list), whatever the values of the statements before it.
C12_StatementsInOrder ==
  Evaluated("seq") =>
    LET kinds == session.p
        ends == {j \in 1..Len(kinds) : kinds[j] \in {"fail", "return"}}
        stop == IF ends = {} THEN Len(kinds) ELSE CHOOSE i \in ends : \A j \in ends : i <= j
        ran == SelectSeq(trace, LAMBDA e : e.ev = "stmt")
    IN  /\ [j \in 1..Len(ran) |-> ran[j].id] = [j \in 1..stop |-> 10 * j + 9]
        /\ Len(store.out) = Cardinality({j \in 1..stop : kinds[j] = "print"})
        /\ \A i, j \in 1..Len(store.out) : i < j => store.out[i].args[1].v < store.out[j].args[1].v
        /\ \A j \in 1..Len(store.out) : kinds[store.out[j].args[1].v] = "print"
        /\ ends = {} =>
             /\ result.k = "Ok"
             /\ result.v = IF kinds # <<>> /\ Last(kinds) = "expr" THEN IntV(Len(kinds)) ELSE Nil
        /\ ends # {} => result.k = IF kinds[stop] = "fail" THEN "Report" ELSE "Return"

\* three statements have run in order, a println between two expressions, and
\* the value is the last one's
C12_Witness ==
  /\ Evaluated("seq")
  /\ session.p = <<"expr", "print", "expr">>
  /\ result.k = "Ok" /\ result.v = IntV(3)
  /\ Len(store.out) = 1

(***************************************************************************)
(* Logical operators.                                                      *)
(***************************************************************************)
\* C13: in `l() op r()` the left operand is evaluated exactly once; for `or`
\* with a left value other than false and nil, and for `and` with a left
\* value false or nil, the result is the left value itself, r is not called
\* and nothing is printed; otherwise r is called exactly once and its value is
\* the result.
C13_ShortCircuit ==
  Evaluated("logic") =>
    LET left == session.p[2]
        short == (session.p[1] = "Or") = (left.tag \notin {"False", "Nil"})
        calls(h) == Cardinality({j \in 1..Len(trace) : trace[j].ev = "enter" /\ trace[j].id = h})
    IN  /\ result.k = "Ok"
        /\ calls(5) = 1
        /\ IF short
           THEN result.v = left /\ calls(6) = 0 /\ store.out = <<>>
           ELSE result.v = session.p[3] /\ calls(6) = 1 /\ Len(store.out) = 1

\* `0 or 2` has yielded the Integer 0 without calling r
C13_Witness ==
  /\ Evaluated("logic")
  /\ session.p = <<"Or", IntV(0), IntV(2)>>
  /\ result.k = "Ok" /\ result.v = IntV(0)
  /\ store.out = <<>>

(***************************************************************************)
(* Calls of a value that is no function.                                   *)
(***************************************************************************)
\* C14: a call whose callee value is not a Function fails with
\* CalleeTypeError at the call, and none of its argument expressions has been
\* evaluated: nothing has been printed.
C14_CalleeCheckedBeforeTheArguments ==
  Evaluated("callee") =>
    /\ result.k = "Report" /\ result.v = [err |-> "CalleeTypeError", span |-> 49]
    /\ store.out = <<>>

(***************************************************************************)
(* A rejected program is not evaluated.                                    *)
(***************************************************************************)
\* C15: the line the resolver rejects is never evaluated: from its reading on,
\* no statement or expression of it has run, nothing has been printed by a
\* builtin, the global frame is as the lines before left it, and the outcome
\* is the report ReadLocalVariableInOwnInitializer.
C15_RejectedIsNotEvaluated ==
  (session.fam = "reject" /\ line >= Len(session.lines)) =>
    /\ pc \notin {"resolved", "evaluated", "aborted"}
    /\ store.envs = <<IF session.p[1]
                      THEN [Env_global.envs[1] EXCEPT !.values = Put(@, "g", IntV(1))]
                      ELSE Env_global.envs[1]>>
    /\ \A j \in 1..Len(store.out) : store.out[j].fn = "run"
    /\ \A j \in 1..Len(trace) : trace[j].id < 100
    /\ pc = "failed" => result.k = "Report" /\ result.v.err = "ReadLocalVariableInOwnInitializer"

\* the second line of a repl session, its last statement a function with the
\* self-reference, has been rejected; g is as the first line left it
C15_Witness ==
  /\ session.fam = "reject"
  /\ session.p = <<TRUE, 2, FALSE>>
  /\ line = 2 /\ pc = "failed"
  /\ store.envs[1].values["g"] = IntV(1)

(***************************************************************************)
(* The binary operators on their own (interpreter.rs, value.rs): the match *)
(* of visit_expr (Binary) on the operator, applied to every pair of        *)
(* operand values.  session.p is <<op, l, r>>.                             *)
(***************************************************************************)
\* The operand values: nil, true, false, the Integers -1, 0, 2 and the least
\* one that does not convert to the size type, the Floats 0.0 and 1.5, the
\* Strings "", "ab" and "b", the lists [] and [1], the dict {1: 10} and the
\* builtin len.
Operands ==
  {Nil, True, False, IntV(0 - 1), IntV(0), IntV(2), IntV(UsizeMax + 1), FloatV(0, 1), FloatV(3, 2),
   StrV(""), StrV("ab"), StrV("b"), ListV(1), ListV(2), DictV(1), FunV(4)}

BinaryInit ==
  /\ \E op \in {"Minus", "Slash", "Star", "Plus", "Greater", "GreaterEqual", "Less", "LessEqual",
                 "EqualEqual", "BangEqual"}, l, r \in Operands :
       session = [fam |-> "binary", p |-> <<op, l, r>>, lines |-> <<>>]
  /\ build \in {"debug", "release"}
  /\ line = 1
  /\ pc = "operands"
  /\ resolvers = <<>>
  /\ store = [Env_global EXCEPT !.lists = <<<<>>, <<IntV(1)>>>>, !.dicts = <<(IntV(1) :> IntV(10))>>]
  /\ result = NoResult

\* visit_expr (Binary), both operands evaluated: `match op.kind { .. }` at the
\* expression 29
BinaryApply ==
  /\ pc = "operands"
  /\ \E r \in {BinaryOp(session.p[1], session.p[2], session.p[3], 29, store)} :
       /\ store' = r.st
       /\ result' = [k |-> r.k, v |-> r.v]
  /\ pc' = "applied"
  /\ UNCHANGED <<session, build, line, resolvers>>

BinarySpec == BinaryInit /\ [][BinaryApply]_vars

\* C16: `==` on two literals (Integer, Float, String) is true iff they are of
\* the same sub-kind with the same payload, on any other pair iff both are of
\* the same variant (nil and nil, any two lists); `!=` is its negation; both
\* complete with a boolean.
C16_Equality ==
  (pc = "applied" /\ session.p[1] \in {"EqualEqual", "BangEqual"}) =>
    LET a == session.p[2]
        b == session.p[3]
        literals == {"Integer", "Float", "String"}
        same == /\ a.tag = b.tag
                /\ (a.tag \in literals /\ b.tag \in literals) => a.v = b.v
    IN  /\ result.k = "Ok"
        /\ result.v = BoolV((session.p[1] = "EqualEqual") = same)

\* the empty list and a list of one element have compared equal
C16_Witness ==
  /\ pc = "applied"
  /\ session.p = <<"EqualEqual", ListV(1), ListV(2)>>
  /\ result.k = "Ok" /\ result.v = True

\* C17: `<`, `<=`, `>`, `>=` complete with a boolean, and on a pair that is
\* neither two numbers nor two strings (booleans, nil, lists, functions, a
\* number beside a string) all four yield false.
C17_UnorderedIsFalse ==
  (pc = "applied" /\ session.p[1] \in {"Greater", "GreaterEqual", "Less", "LessEqual"}) =>
    LET a == session.p[2]
        b == session.p[3]
        numbers == {"Integer", "Float"}
    IN  /\ result.k = "Ok"
        /\ result.v \in {True, False}
        /\ ~(a.tag \in numbers /\ b.tag \in numbers) /\ ~(a.tag = "String" /\ b.tag = "String")
             => result.v = False

\* C18: `+` on two numbers is their sum (an Integer for two Integers, else a
\* Float); with at least one String operand it is the String of the left
\* operand's display form followed by the right one's; every other pairing is
\* reported as UnsupportedOperation.
C18_Plus ==
  (pc = "applied" /\ session.p[1] = "Plus") =>
    LET a == session.p[2]
        b == session.p[3]
        numbers == {"Integer", "Float"}
        x == fraction(a)
        y == fraction(b)
    IN  CASE a.tag = "Integer" /\ b.tag = "Integer" ->
               result.k = "Ok" /\ result.v = IntV(a.v + b.v)
          [] a.tag \in numbers /\ b.tag \in numbers /\ "Float" \in {a.tag, b.tag} ->
               /\ result.k = "Ok" /\ result.v.tag = "Float"
               /\ result.v.v[1] * (x[2] * y[2]) = (x[1] * y[2] + y[1] * x[2]) * result.v.v[2]
          [] "String" \in {a.tag, b.tag} ->
               result.k = "Ok" /\ result.v = StrV(Display(a) \o Display(b))
          [] OTHER ->
               result.k = "Report" /\ result.v = [err |-> "UnsupportedOperation", span |-> 29]

\* `"ab" + 2` has yielded "ab2"
C18_Witness ==
  /\ pc = "applied"
  /\ session.p = <<"Plus", StrV("ab"), IntV(2)>>
  /\ result.k = "Ok" /\ result.v = StrV("ab2")

\* C19: `*` on a String and an Integer n, in either order, is the string
\* repeated n times when 0 <= n <= UsizeMax, and is reported as
\* IntegerConversionError otherwise; a pairing that is neither two numbers nor
\* a String with an Integer is reported as UnsupportedOperation.
C19_Repetition ==
  (pc = "applied" /\ session.p[1] = "Star") =>
    LET a == session.p[2]
        b == session.p[3]
        numbers == {"Integer", "Float"}
        n == IF a.tag = "Integer" THEN a.v ELSE b.v
        str == IF a.tag = "String" THEN a.v ELSE b.v
    IN  CASE {a.tag, b.tag} = {"String", "Integer"} ->
               IF 0 <= n /\ n <= UsizeMax
               THEN result.k = "Ok" /\ result.v = StrV(repeat(str, n))
               ELSE result.k = "Report" /\ result.v.err = "IntegerConversionError"
          [] a.tag \in numbers /\ b.tag \in numbers ->
               result.k = "Ok" /\ result.v.tag \in numbers
          [] OTHER ->
               result.k = "Report" /\ result.v.err = "UnsupportedOperation"

\* C20: `-` and `/` on two numbers, whatever the right operand, end in a
\* number or a report and never abort; with an operand that is no number they
\* are reported as UnsupportedOperation.
C20_MinusAndSlash ==
  (pc = "applied" /\ session.p[1] \in {"Minus", "Slash"}) =>
    LET a == session.p[2]
        b == session.p[3]
        numbers == {"Integer", "Float"}
    IN  IF a.tag \in numbers /\ b.tag \in numbers
        THEN /\ result.k \in {"Ok", "Report"}
             /\ result.k = "Ok" => result.v.tag \in numbers
        ELSE result.k = "Report" /\ result.v = [err |-> "UnsupportedOperation", span |-> 29]

(***************************************************************************)
(* Truthiness.                                                             *)
(***************************************************************************)
\* C21: is_truthy is false for Nil and for the boolean false and true for every
\* other value (0, 0.0, the empty string, the empty list and a function among
\* them), and `!`, `if`, `while`, `and` and `or` decide by it: `!v` is the
\* boolean true iff v is Nil or false, `if` takes its else branch, `while` does
\* not run its body, `and` yields v without evaluating its right operand and
\* `or` evaluates its right operand, each iff v is Nil or false.
C21_Truthiness ==
  /\ \A x \in Operands : is_truthy(x) = (x \notin {Nil, False})
  /\ Evaluated("truthy") =>
       LET falsy == session.p[2] \in {"nil", "false"}
           printed(n) == store.out = <<[fn |-> "println", args |-> <<IntV(n)>>]>>
       IN  CASE session.p[1] = "not" -> result.k = "Ok" /\ result.v = BoolV(falsy) /\ store.out = <<>>
             [] session.p[1] = "if" -> result.k = "Ok" /\ printed(IF falsy THEN 2 ELSE 1)
             [] session.p[1] = "while" ->
                  IF falsy THEN result.k = "Ok" /\ result.v = Nil /\ store.out = <<>>
                  ELSE result.k = "Return" /\ printed(1)
             [] session.p[1] = "and" ->
                  /\ result.k = "Ok"
                  /\ IF falsy THEN result.v.tag \in {"Nil", "False"} /\ store.out = <<>> ELSE printed(1)
             [] session.p[1] = "or" ->
                  /\ result.k = "Ok"
                  /\ IF falsy THEN printed(1) ELSE result.v.tag \notin {"Nil", "False"} /\ store.out = <<>>

\* `if (0) println(1); else println(2);` has printed 1
C21_Witness ==
  /\ Evaluated("truthy")
  /\ session.p = <<"if", "0">>
  /\ store.out = <<[fn |-> "println", args |-> <<IntV(1)>>]>>

(***************************************************************************)
(* The table of the resolver.                                              *)
(***************************************************************************)
\* C22: after resolve has succeeded on a list of any length, locals holds, for
\* every Variable and Assign node whose name is declared in an enclosing block
\* or function scope, the number of scopes between the node and the nearest
\* scope that declares the name, and nothing for the other nodes.  In the rec
\* family given as one line, with the body d blocks deep: the parameter n is d
\* scopes away from its reads; under a block or a function, the counter c and
\* the name f are d + 1 scopes away from the nodes in the body and f is in the
\* scope of its call; at top level c and f are in no scope.
C22_LocalsHoldTheHops ==
  (session.fam = "rec" /\ session.p[1] # 4 /\ pc = "resolved") =>
    LET style == session.p[2]
        d == session.p[3]
        scoped == session.p[1] \in {2, 3, 5}
        locals == resolvers[Len(resolvers)]
    IN  {<<id, locals[id]>> : id \in DOMAIN locals} =
          (IF style = 1 THEN {<<51, d>>, <<61, d>>}
           ELSE IF scoped THEN {<<51, d + 1>>, <<58, d + 1>>, <<61, d + 1>>}
           ELSE {})
          \cup (IF scoped THEN {<<60, d + 1>>, <<90, 0>>} ELSE {})

(***************************************************************************)
(* The size of a context.                                                  *)
(***************************************************************************)
\* C23: the size of every context is the number of parent links from its frame
\* to the global frame (frame 1, the only one without a parent): so it is for
\* the context of every lookup made, at top level, in a block or in a call, and
\* for the context every function has captured.  A node without an entry of
\* the resolver is therefore looked up in the global frame alone: when the
\* global frame does not bind the name the lookup fails with UndefinedValue at
\* that node, whatever the frames in between bind, and nothing but the calls
\* passing the report on follows.
C23_SizeIsTheDepth ==
  /\ \A h \in 1..Len(store.funs) :
        store.funs[h].kind = "Simple" =>
          Frame(store, store.funs[h].closure.env, store.funs[h].closure.size) = 1
  /\ \A j \in 1..Len(trace) :
        trace[j].ev = "look" =>
          LET ctx == trace[j].val.ctx
          IN  /\ Frame(store, ctx.env, ctx.size) = 1
              /\ (/\ pc = "evaluated"
                  /\ trace[j].id \notin DOMAIN resolvers[ctx.resolver]
                  /\ ~trace[j].val.bound) =>
                    /\ \A m \in (j + 1)..Len(trace) : trace[m].ev = "fail"
                    /\ result.k = "Report"
                    /\ result.v = [err |-> "UndefinedValue", span |-> trace[j].id]

\* in the one-statement program `{ let x = 1; { let x = 3; x; } x; }` the read
\* of x in the inner block, two frames below the global one and without an
\* entry, has failed though both blocks bind x
C23_Witness ==
  /\ Evaluated("shadow")
  /\ session.p[1] = 0 /\ session.p[2] = 1
  /\ trace[Len(trace)].ev = "look" /\ trace[Len(trace)].id = 5
  /\ trace[Len(trace)].val.ctx.size = 2
  /\ "x" \in DOMAIN store.envs[trace[Len(trace)].val.ctx.env].values
  /\ result.k = "Report" /\ result.v.err = "UndefinedValue"

(***************************************************************************)
(* Scopes and frames.                                                      *)
(***************************************************************************)
\* C24: whenever a Variable or Assign node with an entry of the resolver is
\* evaluated, the frames from the context's frame up to the global one are,
\* one for one and in order, activations of the scopes that were open when the
\* resolver visited the node, so that the frame at the entry's distance is an
\* activation of the scope the name was found in; and for a Variable that
\* frame binds the name.
C24_FramesMatchScopes ==
  \A j \in 1..Len(trace) :
    (trace[j].ev = "look" /\ trace[j].id \in DOMAIN resolvers[trace[j].val.ctx.resolver]) =>
      LET ctx == trace[j].val.ctx
          opened == store.found[ctx.resolver][trace[j].id]
      IN  /\ resolvers[ctx.resolver][trace[j].id] < Len(opened)
          /\ \A k \in 0..(Len(opened) - 1) :
                /\ Frame(store, ctx.env, k) # 0
                /\ store.envs[Frame(store, ctx.env, k)].scope = opened[Len(opened) - k]
          /\ Frame(store, ctx.env, Len(opened)) = 1
          /\ trace[j].val.kind = "Variable" => trace[j].val.bound

\* `nil; { let c = 1; fn f() { { if (c <= 0) return 0; c = c - 1; return f(); } } f(); }`:
\* in the second activation of f the counter c, two scopes away, has been read as 0
C24_Witness ==
  /\ Evaluated("rec")
  /\ session.p = <<2, 2, 1, 1>>
  /\ resolvers[1][51] = 2
  /\ \E j \in 1..Len(trace) :
        /\ trace[j].ev = "get" /\ trace[j].id = 51 /\ trace[j].val = IntV(0)
        /\ trace[j - 1].ev = "look" /\ trace[j - 1].val.ctx.size = 3
        /\ Count("enter", j) = 2

(***************************************************************************)
(* Assignment.                                                             *)
(***************************************************************************)
\* C25: `x = 2` overwrites exactly one existing binding of x, the one of the
\* scope the resolver found x in or the global one when the node has no entry,
\* yields 2 and creates no binding; when the frame it targets does not bind x
\* (x never declared, or `{ let x = x = 2; }`) the evaluation ends with
\* UndefinedValue at the assignment, without aborting, every frame as it was.
C25_AssignOverwritesOneBinding ==
  Evaluated("assign") =>
    LET pre == session.p[1]
        outer == session.p[2]
        place == session.p[3]
        decl == session.p[4]
        \* the resolver visits a list of two statements or more
        resolved == pre + (IF outer THEN 1 ELSE 0) + (IF place = 5 THEN 2 ELSE 1) > 1
        toLocal == decl /\ resolved
        toGlobal == outer /\ ~decl /\ (place # 4 \/ ~resolved)
        bound(v) == {IntV(v)}
        x(f) == IF "x" \in DOMAIN store.envs[f].values THEN {store.envs[f].values["x"]} ELSE {}
    IN  /\ Len(store.envs) = (CASE place = 1 -> 1 [] place = 3 -> 3 [] OTHER -> 2)
        /\ x(1) = (IF toGlobal THEN bound(2) ELSE IF outer THEN bound(0) ELSE {})
        /\ place # 1 => x(2) = (IF toLocal THEN bound(2) ELSE IF decl THEN bound(1) ELSE {})
        /\ place = 3 => x(3) = {}
        /\ IF toLocal \/ toGlobal
           THEN /\ result.k = "Ok" /\ result.v = Nil
                /\ place # 4 => store.out = <<[fn |-> "println", args |-> <<IntV(2)>>]>>
           ELSE /\ result.k = "Report" /\ result.v = [err |-> "UndefinedValue", span |-> 6]
                /\ store.out = <<>>

C27_ContainersByReference ==
  Evaluated("alias") =>
    LET heap == IF session.p[1] = "list" THEN store.lists ELSE store.dicts
        other == IF session.p[1] = "list" THEN store.dicts ELSE store.lists
        holding(v) == IF session.p[1] = "list" THEN <<IntV(v)>> ELSE [k \in {IntV(0)} |-> IntV(v)]
        shared == session.p[2] \in {"let", "assign", "arg"}
    IN  /\ result.k = "Ok"
        /\ store.out = <<[fn |-> "println", args |-> <<IntV(IF shared THEN 5 ELSE 1)>>]>>
        /\ Len(heap) = (IF shared THEN 1 ELSE 2)
        /\ Len(other) = 0
        /\ {heap[h] : h \in 1..Len(heap)} = (IF shared THEN {holding(5)} ELSE {holding(1), holding(5)})

\* in a block, the dict bound to a has been passed to f and changed there, and
\* a[0] has printed 5
C27_Witness ==
  /\ Evaluated("alias")
  /\ session.p = <<"dict", "arg", TRUE>>
  /\ Count("exit", Len(trace)) >= 1
  /\ store.dicts = <<[k \in {IntV(0)} |-> IntV(5)]>>
  /\ store.out = <<[fn |-> "println", args |-> <<IntV(5)>>]>>

(***************************************************************************)
(* The way of a diagnostic.                                                *)
(***************************************************************************)
\* C28: when an expression fails with a diagnostic inside a statement list, an
\* operand, an argument list, an initializer, a block, a branch or the
\* condition of an `if`, a loop body, a function body, a `return` or a call in
\* a loop in a block, the line ends with that diagnostic at that expression; no
\* operand, argument or statement after it is evaluated at any level; the
\* global frame keeps g (and f) and has neither h nor k; the top level reports
\* the diagnostic and the next line reads g = 1.
C28_ReportsPropagate ==
  session.fam = "fails" =>
    LET report == [err |-> session.p[1], span |-> 3]
        declared == DOMAIN store.envs[1].values \cap {"g", "h", "k", "f"}
    IN  /\ (pc = "evaluated" /\ line = 1) =>
              /\ result.k = "Report"
              /\ result.v = report
              /\ store.out = <<>>
              /\ \A j \in 1..Len(trace) : trace[j].ev = "stmt" => trace[j].id \notin {7, 13, 17, 23, 27}
              /\ declared = (IF session.p[2] \in {"call", "return", "deep"} THEN {"g", "f"} ELSE {"g"})
              /\ store.envs[1].values["g"] = IntV(1)
        /\ (pc = "evaluated" /\ line = 2) =>
              /\ result.k = "Ok"
              /\ result.v = IntV(1)
              /\ store.out = <<[fn |-> "run", args |-> <<[k |-> "Report", v |-> report]>>]>>

\* the call of f in the loop in the block has failed with UndefinedValue, the
\* top level has reported it and the second line has read g
C28_Witness ==
  /\ EvaluatedLast("fails")
  /\ session.p = <<"UndefinedValue", "deep">>
  /\ store.out = <<[fn |-> "run", args |-> <<[k |-> "Report", v |-> [err |-> "UndefinedValue", span |-> 3]]>>]>>
  /\ result.k = "Ok" /\ result.v = IntV(1)

(***************************************************************************)
(* The value of a body that does not return.                               *)
(***************************************************************************)
\* C29: the call of a function whose body runs no `return` yields the value of
\* the body's last statement: 7 for the expression statement `7;`, the value
\* of the branch taken for an `if` (7, 8, nil for a block, nil when there is no
\* branch to take), and nil for an empty body and after a `let`, a block, a
\* `while` or a function declaration; a statement before the last changes
\* nothing.
C29_ValueOfTheLastStatement ==
  Evaluated("last") =>
    LET last == session.p[2]
        value == CASE last \in {"expr", "ifthen"} -> IntV(7)
                   [] last = "ifelse" -> IntV(8)
                   [] OTHER -> Nil
    IN  /\ result.k = "Ok"
        /\ result.v = value
        /\ \A j \in 1..Len(trace) : trace[j].ev # "return"
        /\ trace[Len(trace)].ev = "exit" /\ trace[Len(trace)].val = value
        /\ last = "while" => store.envs[2].values["i"] = IntV(1)

\* after `5;` the body has ended with the else branch of an `if`, and the call
\* has yielded 8
C29_Witness ==
  /\ Evaluated("last")
  /\ session.p = <<TRUE, "ifelse">>
  /\ Ran(1 + 1) /\ Ran(12 + 1) /\ ~Ran(10 + 1)
  /\ result.k = "Ok" /\ result.v = IntV(8)

(***************************************************************************)
(* Activations.                                                            *)
(***************************************************************************)
\* C30: the calls f(A), f(A - 1), .., f(0) have each made one frame, a child of
\* the frame f was declared in, that binds n to the call's argument and, once
\* the call below it has returned, r to that call's value; every read of n in
\* the body yields the n of the frame of the activation that reads, also after
\* the call below it has returned; and the n = 9 of the declaring frame and
\* the n = 8 of the caller h are what they were.
C30_OneFramePerActivation ==
  Evaluated("activation") =>
    LET fromH == session.p[2]
        A == session.p[3]
        home == IF session.p[1] THEN 2 ELSE 1
        sum(n) == (n * (n + 1)) \div 2
        frames(scope) == {e \in 1..Len(store.envs) : store.envs[e].scope = scope}
        before(e) == Cardinality({e2 \in frames(30) : e2 < e})
        own(e) == store.envs[e].values
    IN  /\ result.k = "Ok"
        /\ Cardinality(frames(30)) = A + 1
        /\ \A e \in frames(30) :
              /\ store.envs[e].enclosing = home
              /\ own(e) = IF before(e) = A THEN [x \in {"n"} |-> IntV(0)]
                          ELSE [x \in {"n", "r"} |-> IF x = "n" THEN IntV(A - before(e))
                                                     ELSE IntV(sum(A - before(e) - 1))]
        /\ \A j \in 1..Len(trace) :
              (trace[j].ev = "get" /\ trace[j].id \in {10, 19, 26}) =>
                /\ trace[j - 1].ev = "look"
                /\ trace[j - 1].val.ctx.env \in frames(30)
                /\ trace[j].val = own(trace[j - 1].val.ctx.env)["n"]
        /\ Len(Gets(26)) = A
        /\ own(home)["n"] = IntV(9)
        /\ Cardinality(frames(60)) = (IF fromH THEN 1 ELSE 0)
        /\ \A e \in frames(60) :
              /\ store.envs[e].enclosing = home
              /\ own(e) = [x \in {"n", "v"} |-> IF x = "n" THEN IntV(8) ELSE IntV(sum(A))]
        /\ [j \in 1..Len(store.out) |-> store.out[j].args] =
              <<<<IntV(sum(A) + (IF fromH THEN 8 ELSE 0))>>, <<IntV(9)>>>>

\* in a block, h has called f(2): three activations of f have been live at
\* once, and the outermost has read its n = 2 after the two below it returned
C30_Witness ==
  /\ Evaluated("activation")
  /\ session.p = <<TRUE, TRUE, 2>>
  /\ \E j \in 1..Len(trace) : Depth(j) = 4
  /\ Gets(26) = <<IntV(1), IntV(2)>>
  /\ store.out[1].args = <<IntV(11)>>

====
